---- MODULE Spec2Model ----
(***************************************************************************)
(* A model of the Unikit library (unikit.c): the one-time initialisation   *)
(* that decodes the eight embedded base-64 tables, and the three queries   *)
(* unikit_valid, unikit_fold and unikit_category.                          *)
(*                                                                         *)
(* C arrays are modelled as sequences: the C element p[i] is p[i + 1].     *)
(* A C string is the sequence of its character codes, without the          *)
(* terminating nul.  A fatal error is recorded as the unikit.c line that   *)
(* called raiseErr; 0 means that no error was raised.                      *)
(***************************************************************************)
EXTENDS Integers, Sequences, FiniteSets, TLC

(***************************************************************************)
(* Bounds of the model                                                     *)
(***************************************************************************)

\* Codepoint arguments are taken within this distance of every band edge.
CvSpread == 1

\* The generated astral tables hold at most this many records.
MaxAstral == 3

\* Encoded strings are built from the tables of up to this many words.
MaxWords == 4

\* The largest number of records in the astral tables that the search is
\* run on by itself.
MaxRecords == 7

(***************************************************************************)
(* Constants of unikit.h                                                   *)
(***************************************************************************)

UNIKIT_GCAT_Lu == 19573
UNIKIT_GCAT_Ll == 19564
UNIKIT_GCAT_Lt == 19572
UNIKIT_GCAT_Lm == 19565
UNIKIT_GCAT_Lo == 19567
UNIKIT_GCAT_Mn == 19822
UNIKIT_GCAT_Mc == 19811
UNIKIT_GCAT_Me == 19813
UNIKIT_GCAT_Nd == 20068
UNIKIT_GCAT_Nl == 20076
UNIKIT_GCAT_No == 20079
UNIKIT_GCAT_Pc == 20579
UNIKIT_GCAT_Pd == 20580
UNIKIT_GCAT_Ps == 20595
UNIKIT_GCAT_Pe == 20581
UNIKIT_GCAT_Pi == 20585
UNIKIT_GCAT_Pf == 20582
UNIKIT_GCAT_Po == 20591
UNIKIT_GCAT_Sm == 21357
UNIKIT_GCAT_Sc == 21347
UNIKIT_GCAT_Sk == 21355
UNIKIT_GCAT_So == 21359
UNIKIT_GCAT_Zs == 23155
UNIKIT_GCAT_Zl == 23148
UNIKIT_GCAT_Zp == 23152
UNIKIT_GCAT_Cc == 17251
UNIKIT_GCAT_Cf == 17254
UNIKIT_GCAT_Cs == 17267
UNIKIT_GCAT_Co == 17263
UNIKIT_GCAT_Cn == 17262

\* The 30 General Category codes, in the order of unikit.h.
GcatList ==
  << UNIKIT_GCAT_Lu, UNIKIT_GCAT_Ll, UNIKIT_GCAT_Lt, UNIKIT_GCAT_Lm,
     UNIKIT_GCAT_Lo, UNIKIT_GCAT_Mn, UNIKIT_GCAT_Mc, UNIKIT_GCAT_Me,
     UNIKIT_GCAT_Nd, UNIKIT_GCAT_Nl, UNIKIT_GCAT_No, UNIKIT_GCAT_Pc,
     UNIKIT_GCAT_Pd, UNIKIT_GCAT_Ps, UNIKIT_GCAT_Pe, UNIKIT_GCAT_Pi,
     UNIKIT_GCAT_Pf, UNIKIT_GCAT_Po, UNIKIT_GCAT_Sm, UNIKIT_GCAT_Sc,
     UNIKIT_GCAT_Sk, UNIKIT_GCAT_So, UNIKIT_GCAT_Zs, UNIKIT_GCAT_Zl,
     UNIKIT_GCAT_Zp, UNIKIT_GCAT_Cc, UNIKIT_GCAT_Cf, UNIKIT_GCAT_Cs,
     UNIKIT_GCAT_Co, UNIKIT_GCAT_Cn >>

GcatSet == { GcatList[i] : i \in 1..Len(GcatList) }

(***************************************************************************)
(* Values and machine arithmetic                                           *)
(***************************************************************************)

\* The null pointer: a value that is neither a string nor an array of words
\* (it is compared with both).
NULL == << -1 >>

\* The null pointer to a UNIKIT_FOLD structure or to an error callback.
NULL_PTR == "NULL"

\* Stands for the value of a call that returned none, and for *pLen where
\* it was not written: every value the functions return is at least 0.
NoValue == 0 - 1

\* Stands for a UNIKIT_FOLD structure that the call did not write.
NotWritten == [cpa |-> << >>, len |-> NoValue]

\* Stands for the error callback when no error was raised.
NoCallback == "none"

\* Limits of int32_t, the type of the cv parameters.
INT32_MIN == -2147483647 - 1
INT32_MAX == 2147483647

\* x >> n and x & (2^n - 1) for a non-negative x; Low also gives the two's
\* complement result of x & (2^n - 1) for a negative x.
Shr(x, n) == x \div (2 ^ n)
Low(x, n) == x % (2 ^ n)

\* The conversion (uint16_t) x.
U16(x) == x % 65536

\* The sequence s, held element by element: a sequence written as a function
\* [i \in 1..n |-> e] is otherwise evaluated anew at every use.
Explicit(s) == s \o << >>

(***************************************************************************)
(* decodeUint16Array: the base-64 table decoder                            *)
(***************************************************************************)

\* Character codes the decoder names.
CH_Eq == 61
CH_Plus == 43
CH_Slash == 47

\* A variant of the digit values that takes "=" for a digit of value 0.
B64Val_lenient(c) ==
  IF c >= 65 /\ c <= 90 THEN c - 65
  ELSE IF c >= 97 /\ c <= 122 THEN (c - 97) + 26
  ELSE IF c >= 48 /\ c <= 57 THEN (c - 48) + 52
  ELSE IF c = CH_Plus THEN 62
  ELSE IF c = CH_Slash THEN 63
  ELSE IF c = CH_Eq THEN 0
  ELSE -1

\* The 6-bit value of a base-64 digit (the if-chain of decodeUint16Array),
\* or -1 where the code raises its error.
B64Val(c) ==
  IF c >= 65 /\ c <= 90 THEN c - 65
  ELSE IF c >= 97 /\ c <= 122 THEN (c - 97) + 26
  ELSE IF c >= 48 /\ c <= 57 THEN (c - 48) + 52
  ELSE IF c = CH_Plus THEN 62
  ELSE IF c = CH_Slash THEN 63
  ELSE -1

\* pStr[i] of a C string of slen characters: the nul terminator sits right
\* after the last character.
CharAt(pStr, slen, i) == IF i < slen THEN pStr[i + 1] ELSE 0

\* The accumulator iv64 after n digits starting at pStr[start] have been
\* shifted in by iv64 = (iv64 << 6) | c holds up to 48 bits.  The model's
\* integers are 32 bits wide, so the accumulator is never built: Field gives
\* (uint16_t) ((iv64 >> sh) & 0xffff), the sum of what each digit
\* contributes to these 16 bits.
Field(pStr, slen, start, n, sh) ==
  LET Part(k) ==
        LET d == B64Val(CharAt(pStr, slen, start + k))
            w == 6 * (n - 1 - k)
        IN  IF w >= sh
              THEN IF w - sh >= 16 THEN 0 ELSE U16(d * (2 ^ (w - sh)))
              ELSE IF sh - w >= 6 THEN 0 ELSE Shr(d, sh - w)
      Sum[k \in 0..n] == IF k = 0 THEN 0 ELSE Sum[k - 1] + Part(k - 1)
  IN  U16(Sum[n])

\* A variant of the length that counts two words to the full group.
DecodedLength_short(groups, extra) == (groups * 2) + extra

\* The value stored to *pLen.
DecodedLength(groups, extra) == (groups * 3) + extra

\* A variant of the full group that stores its words low word first.
GroupWord_reversed(pStr, slen, g, k) ==
  CASE k = 0 -> Field(pStr, slen, g * 8, 8, 0)
    [] k = 1 -> Field(pStr, slen, g * 8, 8, 16)
    [] OTHER -> Field(pStr, slen, g * 8, 8, 32)

\* The word pb[k] of the full group g: (uint16_t) (iv64 >> 32),
\* (uint16_t) ((iv64 >> 16) & 0xffff), (uint16_t) (iv64 & 0xffff).
GroupWord(pStr, slen, g, k) ==
  CASE k = 0 -> Field(pStr, slen, g * 8, 8, 32)
    [] k = 1 -> Field(pStr, slen, g * 8, 8, 16)
    [] OTHER -> Field(pStr, slen, g * 8, 8, 0)

\* A variant of the single extra word that is not shifted.
ExtraWord_unshifted(pStr, slen, base) == Field(pStr, slen, base, 3, 0)

\* The word decoded for extra = 1: extra * 3 = 3 digits are shifted in, then
\* iv64 >>= 2 and pb[0] = (uint16_t) (iv64 & 0xffff).
ExtraWord(pStr, slen, base) == Field(pStr, slen, base, 3, 2)

\* A variant of the two extra words that stores the low word first.
ExtraPair_reversed(pStr, slen, base, k) ==
  IF k = 0 THEN Field(pStr, slen, base, 6, 4)
           ELSE Field(pStr, slen, base, 6, 4 + 16)

\* The word pb[k] decoded for extra = 2: extra * 3 = 6 digits are shifted
\* in, then iv64 >>= 4, pb[0] = (uint16_t) (iv64 >> 16) and
\* pb[1] = (uint16_t) (iv64 & 0xffff).
ExtraPair(pStr, slen, base, k) ==
  IF k = 0 THEN Field(pStr, slen, base, 6, 4 + 16)
           ELSE Field(pStr, slen, base, 6, 4)

\* What a call of decodeUint16Array leaves behind: the line of the error it
\* raised (0: none), the value written to *pLen (NoValue: not written) and
\* the returned array (NULL when no array is returned).
DecodeFail(line, len) == [err |-> line, len |-> len, buf |-> NULL]

\* mem tells whether calloc succeeds.
decodeUint16Array(pStr, mem) ==
  IF pStr = NULL THEN DecodeFail(146, NoValue)
  ELSE
  LET slen == Len(pStr) IN
  IF slen < 1 \/ slen % 4 # 0 THEN DecodeFail(153, NoValue)
  ELSE
  LET groups0 == slen \div 8
      lastEq == groups0 > 0 /\ CharAt(pStr, slen, (groups0 * 8) - 1) = CH_Eq
  IN
  IF lastEq /\ slen % 8 # 0 THEN DecodeFail(166, NoValue)
  ELSE
  LET groups == IF lastEq THEN groups0 - 1 ELSE groups0
      base == groups * 8
      extra == IF CharAt(pStr, slen, base) = 0 THEN 0
               ELSE IF CharAt(pStr, slen, base + 4) = 0 THEN 1
               ELSE IF CharAt(pStr, slen, base + 8) = 0 THEN 2
               ELSE -1
  IN
  IF extra = -1 THEN DecodeFail(191, NoValue)
  ELSE
  LET len == DecodedLength(groups, extra)
      dataEnd == base + (extra * 3)
      \* the word at pBuf[i]
      Word(i) ==
        IF i < groups * 3
          THEN GroupWord(pStr, slen, i \div 3, i % 3)
          ELSE IF extra = 1
                 THEN ExtraWord(pStr, slen, base)
                 ELSE ExtraPair(pStr, slen, base, i - (groups * 3))
  IN
  IF ~mem THEN DecodeFail(200, len)
  ELSE IF \E i \in 0..(base - 1) : B64Val(CharAt(pStr, slen, i)) = -1
    THEN DecodeFail(225, len)
  ELSE IF \E i \in base..(dataEnd - 1) : B64Val(CharAt(pStr, slen, i)) = -1
    THEN DecodeFail(256, len)
  ELSE IF \E i \in dataEnd..(slen - 1) : CharAt(pStr, slen, i) # CH_Eq
    THEN DecodeFail(286, len)
  ELSE [err |-> 0, len |-> len,
        buf |-> Explicit([i \in 1..len |-> Word(i - 1)])]

(***************************************************************************)
(* The encoded form of a table.  The generator of the embedded strings is  *)
(* not part of the library; Encode writes the wire format that             *)
(* decodeUint16Array reads: 8 digits for every three words, then 3 digits  *)
(* and "=" for one more word, or 6 digits and "==" for two more words.     *)
(***************************************************************************)

B64Char(v) ==
  IF v < 26 THEN 65 + v
  ELSE IF v < 52 THEN 97 + (v - 26)
  ELSE IF v < 62 THEN 48 + (v - 52)
  ELSE IF v = 62 THEN CH_Plus
  ELSE CH_Slash

\* The j-th 6-bit digit of the big-endian bit string of the words ws,
\* which is padded with zero bits.
Digit(ws, n, j) ==
  LET s == 6 * j
      a == s \div 16
      off == s % 16
      W(k) == IF k < n THEN ws[k + 1] ELSE 0
      have == 16 - off
      rest == Low(W(a), have)
  IN  IF have >= 6 THEN Shr(rest, have - 6)
      ELSE (rest * (2 ^ (6 - have))) + Shr(W(a + 1), 16 - (6 - have))

Encode(ws) ==
  LET n == Len(ws)
      full == (n \div 3) * 8
      digits == full + (IF n % 3 = 1 THEN 3 ELSE IF n % 3 = 2 THEN 6 ELSE 0)
      slen == full + (IF n % 3 = 0 THEN 0 ELSE IF n % 3 = 1 THEN 4 ELSE 8)
  IN  Explicit([i \in 1..slen |->
                  IF i <= digits THEN B64Char(Digit(ws, n, i - 1)) ELSE CH_Eq])

(***************************************************************************)
(* Module state of unikit.c                                                *)
(***************************************************************************)

VARIABLES
  m_err,               \* the stored error callback, NULL for the default
  m_init,              \* non-zero once the module is initialized
  m_case_lower, m_case_upper, m_case_data,
  m_case_lower_len, m_case_upper_len, m_case_data_len,
  m_gcat_core, m_gcat_gen_low, m_gcat_gen_high, m_gcat_bitmap, m_gcat_astral,
  m_gcat_core_len, m_gcat_gen_low_len, m_gcat_gen_high_len,
  m_gcat_bitmap_len, m_gcat_astral_len,
  alive,               \* FALSE once raiseErr has stopped the program
  last,                \* the most recent call of a public function
  inits                \* how many calls of unikit_init have returned

tables ==
  << m_case_lower, m_case_upper, m_case_data,
     m_case_lower_len, m_case_upper_len, m_case_data_len,
     m_gcat_core, m_gcat_gen_low, m_gcat_gen_high, m_gcat_bitmap, m_gcat_astral,
     m_gcat_core_len, m_gcat_gen_low_len, m_gcat_gen_high_len,
     m_gcat_bitmap_len, m_gcat_astral_len >>

module == << m_err, m_init, tables >>

vars == << module, alive, last, inits >>

(***************************************************************************)
(* queryTrie                                                               *)
(***************************************************************************)

\* A variant of the walk that answers "absent" where the node or the entry
\* lies outside the array.
RECURSIVE TrieWalk_tolerant(_, _, _, _, _, _, _)
TrieWalk_tolerant(pTrie, tlen, key, depth, i, tptr, reads) ==
  LET j == Low(Shr(key, (depth - i - 1) * 4), 4) IN
  IF tptr + j >= tlen
    THEN [err |-> 0, r |-> 65535, reads |-> reads]
  ELSE IF i <= depth - 2
    THEN LET r == pTrie[tptr + j + 1] IN
         IF r = 65535
           THEN [err |-> 0, r |-> 65535, reads |-> reads \cup {tptr + j}]
           ELSE TrieWalk_tolerant(pTrie, tlen, key, depth, i + 1, r * 16,
                                  reads \cup {tptr + j})
    ELSE [err |-> 0, r |-> pTrie[tptr + j + 1], reads |-> reads \cup {tptr + j}]

\* A variant of the walk that takes the nybbles of the key from the least
\* significant one upwards.
RECURSIVE TrieWalk_low_first(_, _, _, _, _, _, _)
TrieWalk_low_first(pTrie, tlen, key, depth, i, tptr, reads) ==
  LET j == Low(Shr(key, i * 4), 4) IN
  IF i <= depth - 2
    THEN IF tptr + j >= tlen
           THEN [err |-> 374, r |-> NoValue, reads |-> reads]
           ELSE LET r == pTrie[tptr + j + 1] IN
                IF r = 65535
                  THEN [err |-> 0, r |-> 65535, reads |-> reads \cup {tptr + j}]
                  ELSE TrieWalk_low_first(pTrie, tlen, key, depth, i + 1,
                                          r * 16, reads \cup {tptr + j})
    ELSE IF tptr + j >= tlen
           THEN [err |-> 393, r |-> NoValue, reads |-> reads]
           ELSE [err |-> 0, r |-> pTrie[tptr + j + 1],
                 reads |-> reads \cup {tptr + j}]

\* The result of queryTrie: the line of the error raised (0: none), the
\* value returned and the indices of the trie that were read.
RECURSIVE TrieWalk(_, _, _, _, _, _, _)
TrieWalk(pTrie, tlen, key, depth, i, tptr, reads) ==
  IF i <= depth - 2
    THEN LET j == Low(Shr(key, (depth - i - 1) * 4), 4) IN
         IF tptr + j >= tlen
           THEN [err |-> 374, r |-> NoValue, reads |-> reads]
           ELSE LET r == pTrie[tptr + j + 1] IN
                IF r = 65535
                  THEN [err |-> 0, r |-> 65535, reads |-> reads \cup {tptr + j}]
                  ELSE TrieWalk(pTrie, tlen, key, depth, i + 1, r * 16,
                                reads \cup {tptr + j})
    ELSE LET j == Low(key, 4) IN
         IF tptr + j >= tlen
           THEN [err |-> 393, r |-> NoValue, reads |-> reads]
           ELSE [err |-> 0, r |-> pTrie[tptr + j + 1],
                 reads |-> reads \cup {tptr + j}]

queryTrie(pTrie, tlen, key, depth) ==
  IF pTrie = NULL THEN [err |-> 354, r |-> NoValue, reads |-> {}]
  ELSE IF tlen < 1 THEN [err |-> 357, r |-> NoValue, reads |-> {}]
  ELSE IF depth < 1 \/ depth > 8 THEN [err |-> 360, r |-> NoValue, reads |-> {}]
  ELSE TrieWalk(pTrie, tlen, key, depth, 0, 0, {})

(***************************************************************************)
(* unikit_valid                                                            *)
(***************************************************************************)

\* A variant of unikit_valid that takes the surrogates for valid.
unikit_valid_with_surrogates(cv) == IF cv >= 0 /\ cv <= 1114111 THEN 1 ELSE 0

\* A variant of unikit_valid whose range ends one codepoint later.
unikit_valid_wide(cv) ==
  IF cv >= 0 /\ cv <= 1114112
    THEN IF cv >= 55296 /\ cv <= 57343 THEN 0 ELSE 1
    ELSE 0

unikit_valid(cv) ==
  IF cv >= 0 /\ cv <= 1114111
    THEN IF cv >= 55296 /\ cv <= 57343 THEN 0 ELSE 1
    ELSE 0

(***************************************************************************)
(* The outcome of a call of unikit_fold or unikit_category:                *)
(*   err    the line of the error raised, 0 when the call returned         *)
(*   ret    the value returned, NoValue when none was                      *)
(*   out    the UNIKIT_FOLD structure as the call left it, NotWritten     *)
(*          when the call did not write it                                 *)
(*   reads  the table elements read, as pairs <<table, index>>             *)
(*   lens   the tables whose length was tested                             *)
(***************************************************************************)

Outcome(err, ret, out, reads, lens) ==
  [err |-> err, ret |-> ret, out |-> out, reads |-> reads, lens |-> lens]

Tag(name, idx) == { <<name, i>> : i \in idx }

(***************************************************************************)
(* unikit_fold                                                             *)
(***************************************************************************)

\* The structure after memset(pf, 0, sizeof(UNIKIT_FOLD)).
ClearedFold == [cpa |-> <<0, 0, 0, 0>>, len |-> 0]

\* A variant of the offset that leaves the codepoints of the upper plane in
\* the lower one.
PlaneOffset_none(plane) == 0

\* What is added to a codepoint copied from the case data array: 0x10000 in
\* the upper plane.
PlaneOffset(plane) == IF plane = 1 THEN 65536 ELSE 0

\* A variant of the indicator that goes by the length alone.
TrivialIndicator_by_length(len, first, cv) == IF len = 1 THEN 0 ELSE 1

\* The return value of unikit_fold for a mapping found in the tables, of
\* len codepoints of which first is the first: 0 if trivial, 1 if not.
TrivialIndicator(len, first, cv) ==
  IF len = 1
    THEN IF first = cv THEN 0 ELSE 1
    ELSE 1

unikit_fold(pf, cv) ==
  IF m_init = 0 THEN Outcome(485, NoValue, NotWritten, {}, {})
  ELSE IF pf = NULL_PTR THEN Outcome(490, NoValue, NotWritten, {}, {})
  ELSE IF unikit_valid(cv) = 0 THEN Outcome(493, NoValue, NotWritten, {}, {})
  ELSE
  LET plane == IF cv >= 0 /\ cv <= 65535 THEN 0
               ELSE IF cv >= 65536 /\ cv <= 131071 THEN 1
               ELSE -1
      name == IF plane = 0 THEN "case_lower" ELSE "case_upper"
      q == IF plane = 0
             THEN queryTrie(m_case_lower, m_case_lower_len, Low(cv, 16), 4)
           ELSE IF plane = 1
             THEN queryTrie(m_case_upper, m_case_upper_len, Low(cv, 16), 4)
           ELSE [err |-> 0, r |-> 65535, reads |-> {}]
      qlens == IF plane = -1 THEN {} ELSE {name}
      qreads == Tag(name, q.reads)
  IN
  IF q.err # 0 THEN Outcome(q.err, NoValue, ClearedFold, qreads, qlens)
  ELSE IF q.r # 65535
    THEN LET sqlen == Low(q.r, 2) + 1
             base == Shr(q.r, 2)
         IN
         IF base > m_case_data_len - sqlen
           THEN Outcome(534, NoValue, ClearedFold, qreads,
                        qlens \cup {"case_data"})
           ELSE
           LET cpa == [i \in 1..4 |->
                         IF i <= sqlen
                           THEN m_case_data[base + (i - 1) + 1]
                                + PlaneOffset(plane)
                           ELSE 0]
               result == TrivialIndicator(sqlen, cpa[1], cv)
           IN Outcome(0, result, [cpa |-> cpa, len |-> sqlen],
                      qreads \cup Tag("case_data", base..(base + sqlen - 1)),
                      qlens \cup {"case_data"})
    ELSE Outcome(0, 0, [cpa |-> <<cv, 0, 0, 0>>, len |-> 1], qreads, qlens)

(***************************************************************************)
(* unikit_category                                                         *)
(***************************************************************************)

\* A variant of the comparison that takes a query equal to the key of the
\* record for a smaller one.
AstralCompare_equal_is_less(plane, offs, r_plane, r_lower) ==
  IF plane < r_plane THEN -1
  ELSE IF plane > r_plane THEN 1
  ELSE IF offs <= r_lower THEN -1
  ELSE 1

\* The comparison of the query (plane, offs) with the key fields of a
\* record: -1, 0 or 1.
AstralCompare(plane, offs, r_plane, r_lower) ==
  IF plane < r_plane THEN -1
  ELSE IF plane > r_plane THEN 1
  ELSE IF offs < r_lower THEN -1
  ELSE IF offs > r_lower THEN 1
  ELSE 0

\* A variant of the midpoint that is the lower median of the bounds.
AstralMid_lower_median(lbound, ubound) == lbound + ((ubound - lbound) \div 2)

\* The midpoint record of the bounds: halfway between them, and at least
\* one above the lower bound.
AstralMid(lbound, ubound) ==
  LET half == lbound + ((ubound - lbound) \div 2)
  IN  IF half <= lbound THEN lbound + 1 ELSE half

\* One iteration of the while loop of the astral search on the bounds
\* lbound < ubound: the midpoint and the bounds it leaves.
AstralStep(plane, offs, lbound, ubound) ==
  LET mid == AstralMid(lbound, ubound)
      r_plane == m_gcat_astral[(mid * 4) + 1]
      r_lower == m_gcat_astral[(mid * 4) + 1 + 1]
      cr == AstralCompare(plane, offs, r_plane, r_lower)
  IN  IF cr < 0 THEN [mid |-> mid, lbound |-> lbound, ubound |-> mid - 1]
      ELSE IF cr > 0 THEN [mid |-> mid, lbound |-> mid, ubound |-> ubound]
      ELSE [mid |-> mid, lbound |-> mid, ubound |-> mid]

\* The while loop of the astral search, from the bounds lbound and ubound:
\* the selected record, the elements read and the number of iterations.
RECURSIVE AstralSearch(_, _, _, _, _, _)
AstralSearch(plane, offs, lbound, ubound, reads, iters) ==
  IF lbound < ubound
    THEN LET st == AstralStep(plane, offs, lbound, ubound) IN
         AstralSearch(plane, offs, st.lbound, st.ubound,
                      reads \cup {st.mid * 4, (st.mid * 4) + 1}, iters + 1)
    ELSE [lbound |-> lbound, ubound |-> ubound, reads |-> reads,
          iters |-> iters]

\* A variant of the astral branch whose ranges exclude their upper end.
CategoryAstral_open(cv) ==
  IF m_gcat_astral_len < 1 \/ m_gcat_astral_len % 4 # 0
    THEN Outcome(661, NoValue, NotWritten, {}, {"gcat_astral"})
    ELSE
    LET plane == Shr(cv, 16)
        offs == Low(cv, 16)
        s == AstralSearch(plane, offs, 0, (m_gcat_astral_len \div 4) - 1, {}, 0)
        lbound == s.lbound
        r_plane == m_gcat_astral[(lbound * 4) + 1]
        r_lower == m_gcat_astral[(lbound * 4) + 1 + 1]
        r_upper == m_gcat_astral[(lbound * 4) + 2 + 1]
        hit == plane = r_plane /\ offs >= r_lower /\ offs < r_upper
        seen == s.reads \cup {lbound * 4, (lbound * 4) + 1, (lbound * 4) + 2}
                \cup (IF hit THEN {(lbound * 4) + 3} ELSE {})
    IN  Outcome(0,
                IF hit THEN m_gcat_astral[(lbound * 4) + 3 + 1]
                       ELSE UNIKIT_GCAT_Cn,
                NotWritten, Tag("gcat_astral", seen), {"gcat_astral"})

\* The astral branch: cv in 0x20000 .. 0x10ffff.
CategoryAstral(cv) ==
  IF m_gcat_astral_len < 1 \/ m_gcat_astral_len % 4 # 0
    THEN Outcome(661, NoValue, NotWritten, {}, {"gcat_astral"})
    ELSE
    LET plane == Shr(cv, 16)
        offs == Low(cv, 16)
        s == AstralSearch(plane, offs, 0, (m_gcat_astral_len \div 4) - 1, {}, 0)
        lbound == s.lbound
        r_plane == m_gcat_astral[(lbound * 4) + 1]
        r_lower == m_gcat_astral[(lbound * 4) + 1 + 1]
        r_upper == m_gcat_astral[(lbound * 4) + 2 + 1]
        hit == plane = r_plane /\ offs >= r_lower /\ offs <= r_upper
        seen == s.reads \cup {lbound * 4, (lbound * 4) + 1, (lbound * 4) + 2}
                \cup (IF hit THEN {(lbound * 4) + 3} ELSE {})
    IN  Outcome(0,
                IF hit THEN m_gcat_astral[(lbound * 4) + 3 + 1]
                       ELSE UNIKIT_GCAT_Cn,
                NotWritten, Tag("gcat_astral", seen), {"gcat_astral"})

\* A variant of the hardcoded remainder table with the two ranges exchanged.
HardcodedRemainder_exchanged(cv) ==
  IF cv >= 55296 /\ cv <= 57343 THEN UNIKIT_GCAT_Co
  ELSE IF cv >= 57344 /\ cv <= 63743 THEN UNIKIT_GCAT_Cs
  ELSE UNIKIT_GCAT_Cn

\* The hardcoded remainder table, used when the general trie has no entry.
HardcodedRemainder(cv) ==
  IF cv >= 55296 /\ cv <= 57343 THEN UNIKIT_GCAT_Cs
  ELSE IF cv >= 57344 /\ cv <= 63743 THEN UNIKIT_GCAT_Co
  ELSE UNIKIT_GCAT_Cn

\* The general branch: cv in 0x100 .. 0x1ffff.
CategoryGeneral(cv) ==
  LET shift == ((cv - 256) % 8) * 2
      offs == (cv - 256) \div 8
  IN
  IF offs >= m_gcat_bitmap_len
    THEN Outcome(612, NoValue, NotWritten, {}, {"gcat_bitmap"})
    ELSE
    LET bits == Low(Shr(m_gcat_bitmap[offs + 1], shift), 2)
        breads == {<<"gcat_bitmap", offs>>}
    IN
    IF bits = 1 THEN Outcome(0, UNIKIT_GCAT_Lo, NotWritten, breads, {"gcat_bitmap"})
    ELSE IF bits = 2
      THEN Outcome(0, UNIKIT_GCAT_Ll, NotWritten, breads, {"gcat_bitmap"})
    ELSE IF bits = 3
      THEN Outcome(0, UNIKIT_GCAT_So, NotWritten, breads, {"gcat_bitmap"})
    ELSE
      LET name == IF cv <= 65535 THEN "gcat_gen_low" ELSE "gcat_gen_high"
          q == IF cv <= 65535
                 THEN queryTrie(m_gcat_gen_low, m_gcat_gen_low_len, cv, 4)
                 ELSE queryTrie(m_gcat_gen_high, m_gcat_gen_high_len,
                                Low(cv, 16), 4)
          seen == breads \cup Tag(name, q.reads)
          lens == {"gcat_bitmap", name}
      IN
      IF q.err # 0 THEN Outcome(q.err, NoValue, NotWritten, seen, lens)
      ELSE IF q.r = 65535
        THEN Outcome(0, HardcodedRemainder(cv), NotWritten, seen, lens)
        ELSE Outcome(0, q.r, NotWritten, seen, lens)

\* A variant of the core branch that accepts a core table of more than 256
\* words.
CategoryCore_at_least(cv) ==
  IF m_gcat_core_len < 256
    THEN Outcome(599, NoValue, NotWritten, {}, {"gcat_core"})
    ELSE Outcome(0, m_gcat_core[cv + 1], NotWritten, {<<"gcat_core", cv>>},
                 {"gcat_core"})

\* A variant of the core branch that returns the index in place of the
\* entry.
CategoryCore_index(cv) ==
  IF m_gcat_core_len # 256
    THEN Outcome(599, NoValue, NotWritten, {}, {"gcat_core"})
    ELSE Outcome(0, cv, NotWritten, {<<"gcat_core", cv>>}, {"gcat_core"})

\* The core branch: cv in 0x00 .. 0xff.
CategoryCore(cv) ==
  IF m_gcat_core_len # 256
    THEN Outcome(599, NoValue, NotWritten, {}, {"gcat_core"})
    ELSE Outcome(0, m_gcat_core[cv + 1], NotWritten, {<<"gcat_core", cv>>},
                 {"gcat_core"})

\* A variant of unikit_category that rejects, as unikit_fold does, a cv that
\* does not pass unikit_valid.
unikit_category_valid_only(cv) ==
  IF m_init = 0 THEN Outcome(589, NoValue, NotWritten, {}, {})
  ELSE IF unikit_valid(cv) = 0 THEN Outcome(593, NoValue, NotWritten, {}, {})
  ELSE IF cv >= 0 /\ cv <= 255 THEN CategoryCore(cv)
  ELSE IF cv >= 256 /\ cv <= 131071 THEN CategoryGeneral(cv)
  ELSE CategoryAstral(cv)

\* A variant of unikit_category whose astral band has no upper limit.
unikit_category_unbounded(cv) ==
  IF m_init = 0 THEN Outcome(589, NoValue, NotWritten, {}, {})
  ELSE IF cv >= 0 /\ cv <= 255 THEN CategoryCore(cv)
  ELSE IF cv >= 256 /\ cv <= 131071 THEN CategoryGeneral(cv)
  ELSE IF cv >= 131072 THEN CategoryAstral(cv)
  ELSE Outcome(0, UNIKIT_GCAT_Cn, NotWritten, {}, {})

\* A variant of unikit_category that tests the length of the core table
\* whatever the band of cv.
unikit_category_core_first(cv) ==
  IF m_init = 0 THEN Outcome(589, NoValue, NotWritten, {}, {})
  ELSE IF m_gcat_core_len # 256
    THEN Outcome(599, NoValue, NotWritten, {}, {"gcat_core"})
  ELSE IF cv >= 0 /\ cv <= 255 THEN CategoryCore(cv)
  ELSE IF cv >= 256 /\ cv <= 131071 THEN CategoryGeneral(cv)
  ELSE IF cv >= 131072 /\ cv <= 1114111 THEN CategoryAstral(cv)
  ELSE Outcome(0, UNIKIT_GCAT_Cn, NotWritten, {}, {})

unikit_category(cv) ==
  IF m_init = 0 THEN Outcome(589, NoValue, NotWritten, {}, {})
  ELSE IF cv >= 0 /\ cv <= 255 THEN CategoryCore(cv)
  ELSE IF cv >= 256 /\ cv <= 131071 THEN CategoryGeneral(cv)
  ELSE IF cv >= 131072 /\ cv <= 1114111 THEN CategoryAstral(cv)
  ELSE Outcome(0, UNIKIT_GCAT_Cn, NotWritten, {}, {})

(***************************************************************************)
(* The data module.  unikit_data.h declares unikit_data_fetch; the strings *)
(* it returns are generated from the Unicode Character Database and are    *)
(* not part of the library.  The model takes them from DataSets: tables    *)
(* laid out as the data model describes them, and tables with one defect.  *)
(***************************************************************************)

UNIKIT_DATA_KEY_CASE_LOWER == 100
UNIKIT_DATA_KEY_CASE_UPPER == 101
UNIKIT_DATA_KEY_CASE_DATA == 102
UNIKIT_DATA_KEY_GCAT_CORE == 200
UNIKIT_DATA_KEY_GCAT_GEN_LOW == 201
UNIKIT_DATA_KEY_GCAT_GEN_HIGH == 202
UNIKIT_DATA_KEY_GCAT_BITMAP == 203
UNIKIT_DATA_KEY_GCAT_ASTRAL == 204

\* The elements of a finite set of integers in ascending order.
Sorted(S) ==
  Explicit([i \in 1..Cardinality(S) |->
              CHOOSE x \in S : Cardinality({y \in S : y < x}) = i - 1])

\* A compiled trie of depth 4 that maps the 16-bit keys of DOMAIN pay to
\* their payloads: tables of 16 words, the root first, then the tables of
\* each level in ascending order of the key prefix they serve.
BuildTrie(pay) ==
  LET keys == DOMAIN pay
      \* a table is the pair <<level, key prefix>>, coded level * 65536 + prefix
      Tables == {0} \cup { (l * 65536) + Shr(k, 4 * (4 - l)) : l \in 1..3, k \in keys }
      order == Sorted(Tables)
      IndexOf(t) == Cardinality({u \in Tables : u < t})
      Word(w) ==
        LET t == order[(w \div 16) + 1]
            level == t \div 65536
            child == ((t % 65536) * 16) + (w % 16)
        IN  IF level < 3
              THEN IF ((level + 1) * 65536) + child \in Tables
                     THEN IndexOf(((level + 1) * 65536) + child)
                     ELSE 65535
              ELSE IF child \in keys THEN pay[child] ELSE 65535
  IN  Explicit([i \in 1..(16 * Cardinality(Tables)) |-> Word(i - 1)])

\* The payload of a case folding record: the sequence of sqlen words of the
\* case data array that starts at index base.
FoldKey(base, sqlen) == (base * 4) + (sqlen - 1)

BaseCaseData == << 97, 115, 115, 65535, 1, 2, 3, 10, 11, 12, 13, 0 >>

BaseCaseLower ==
  BuildTrie((0 :> FoldKey(11, 1)) @@ (255 :> FoldKey(1, 2))
            @@ (256 :> FoldKey(0, 1)) @@ (55295 :> FoldKey(4, 3))
            @@ (57344 :> FoldKey(7, 4)) @@ (65535 :> FoldKey(3, 1)))

BaseCaseUpper ==
  BuildTrie((0 :> FoldKey(11, 1)) @@ (1 :> FoldKey(0, 1))
            @@ (65535 :> FoldKey(1, 2)))

BaseCore == Explicit([i \in 1..256 |-> GcatList[((i - 1) % 30) + 1]])

BaseGenLow ==
  BuildTrie((256 :> UNIKIT_GCAT_Lu) @@ (55295 :> UNIKIT_GCAT_Nd)
            @@ (57343 :> UNIKIT_GCAT_Sm) @@ (63744 :> UNIKIT_GCAT_Lo)
            @@ (65535 :> UNIKIT_GCAT_Zs))

BaseGenHigh ==
  BuildTrie((0 :> UNIKIT_GCAT_Lo) @@ (65535 :> UNIKIT_GCAT_So))

\* The bitmap covers 0x100 .. 0x1ffff with eight 2-bit cells to the word.
BitmapWords == 16352

\* A bitmap of n words that all equal w.
Bitmap(n, w) == Explicit([i \in 1..n |-> w])

BaseAstral == << 2, 0, 1, UNIKIT_GCAT_Lo, 16, 65534, 65535, UNIKIT_GCAT_Co >>

\* The records (plane, lowOffset, highOffset) that the generated astral
\* tables draw from, in ascending order and apart from each other.
AstralRecords == << <<2, 0, 1>>, <<2, 3, 3>>, <<3, 0, 0>>, <<16, 65534, 65535>> >>

\* The astral table with the records of AstralRecords whose bit is set in
\* mask, each with a category of its own.
AstralTable(mask) ==
  LET picked == Sorted({ i \in 1..Len(AstralRecords) : Shr(mask, i - 1) % 2 = 1 })
  IN  Explicit([i \in 1..(4 * Len(picked)) |->
         IF (i - 1) % 4 = 3
           THEN GcatList[picked[((i - 1) \div 4) + 1]]
           ELSE AstralRecords[picked[((i - 1) \div 4) + 1]][((i - 1) % 4) + 1]])

AstralMasks ==
  LET Few(mask) ==
        Cardinality({ i \in 1..Len(AstralRecords) : Shr(mask, i - 1) % 2 = 1 })
          <= MaxAstral
  IN  SelectSeq([m \in 1..((2 ^ Len(AstralRecords)) - 1) |-> m], Few)

\* The eight strings of one data module.
DataSet(lower, upper, data, core, gen_low, gen_high, bitmap, astral) ==
  [case_lower |-> lower, case_upper |-> upper, case_data |-> data,
   gcat_core |-> core, gcat_gen_low |-> gen_low, gcat_gen_high |-> gen_high,
   gcat_bitmap |-> bitmap, gcat_astral |-> astral]

\* The data set with a short bitmap, which covers 0x100 .. 0x10f only.
ShortData ==
  DataSet(Encode(BaseCaseLower), Encode(BaseCaseUpper), Encode(BaseCaseData),
          Encode(BaseCore), Encode(BaseGenLow), Encode(BaseGenHigh),
          Encode(Bitmap(2, 0)), Encode(BaseAstral))

\* The first n words of ws.
Take(ws, n) == SubSeq(ws, 1, n)

FixedDataSets ==
  << \* well-formed tables; the bitmap cells of the eight codepoints of a
     \* word are 0, 3, 2, 1, 0, 1, 2, 0
     [ShortData EXCEPT !.gcat_bitmap = Encode(Bitmap(BitmapWords, 9324))],
     \* bitmaps that end early, with the cells 0, with 1, 2, 3, 0 and with
     \* 2, 3, 0, 1
     ShortData,
     [ShortData EXCEPT !.gcat_bitmap = Encode(Bitmap(1, 14649))],
     [ShortData EXCEPT !.gcat_bitmap = Encode(Bitmap(1, 20046))],
     \* a core table that is too short, too long, or holds no category
     [ShortData EXCEPT !.gcat_core = Encode(Take(BaseCore, 255))],
     [ShortData EXCEPT !.gcat_core = Encode(BaseCore \o << UNIKIT_GCAT_Cn >>)],
     [ShortData EXCEPT !.gcat_core = Encode([BaseCore EXCEPT ![1] = 4660])],
     \* a general trie with a payload that is no category, a cut one, and
     \* one whose root names a table beyond its end
     [ShortData EXCEPT !.gcat_gen_low =
        Encode(BuildTrie((256 :> 4660) @@ (257 :> UNIKIT_GCAT_Mn)))],
     [ShortData EXCEPT !.gcat_gen_low = Encode(Take(BaseGenLow, 40))],
     [ShortData EXCEPT !.gcat_gen_low =
        Encode([BaseGenLow EXCEPT ![1] = 4000])],
     \* case folding tables that are cut
     [ShortData EXCEPT !.case_data = Encode(Take(BaseCaseData, 9))],
     [ShortData EXCEPT !.case_lower = Encode(Take(BaseCaseLower, 15))],
     [ShortData EXCEPT !.case_upper = Encode(Take(BaseCaseUpper, 1))],
     \* astral tables: a cut one, an unsorted one, overlapping ranges
     [ShortData EXCEPT !.gcat_astral = Encode(Take(BaseAstral, 5))],
     [ShortData EXCEPT !.gcat_astral =
        Encode(<< 3, 0, 1, UNIKIT_GCAT_Lo, 2, 2, 3, UNIKIT_GCAT_Nd,
                  2, 0, 0, UNIKIT_GCAT_Sm >>)],
     [ShortData EXCEPT !.gcat_astral =
        Encode(<< 2, 0, 3, UNIKIT_GCAT_Lo, 2, 2, 4, UNIKIT_GCAT_Nd >>)],
     \* strings that do not decode: a missing string, a length that is no
     \* multiple of 4, a character outside the alphabet, data after padding
     [ShortData EXCEPT !.case_upper = NULL],
     [ShortData EXCEPT !.case_data = << 65, 65, 65, 65, 65 >>],
     [ShortData EXCEPT !.gcat_core = << 65, 65, 42, 61 >>],
     [ShortData EXCEPT !.gcat_astral = << 65, 65, 65, 65 >>] >>

AstralDataSets ==
  Explicit([i \in 1..Len(AstralMasks) |->
     [ShortData EXCEPT !.gcat_astral = Encode(AstralTable(AstralMasks[i]))]])

DataSets == FixedDataSets \o AstralDataSets

\* The field of a data module that holds the string of a key.
StringOf(ds, key) ==
  CASE key = UNIKIT_DATA_KEY_CASE_LOWER -> ds.case_lower
    [] key = UNIKIT_DATA_KEY_CASE_UPPER -> ds.case_upper
    [] key = UNIKIT_DATA_KEY_CASE_DATA -> ds.case_data
    [] key = UNIKIT_DATA_KEY_GCAT_CORE -> ds.gcat_core
    [] key = UNIKIT_DATA_KEY_GCAT_GEN_LOW -> ds.gcat_gen_low
    [] key = UNIKIT_DATA_KEY_GCAT_GEN_HIGH -> ds.gcat_gen_high
    [] key = UNIKIT_DATA_KEY_GCAT_BITMAP -> ds.gcat_bitmap
    [] key = UNIKIT_DATA_KEY_GCAT_ASTRAL -> ds.gcat_astral
    [] OTHER -> NULL

\* unikit_data_fetch of data module d.
unikit_data_fetch(d, key) == StringOf(DataSets[d], key)

(***************************************************************************)
(* The program: calls of the public functions, in any order                *)
(***************************************************************************)

\* The error callbacks a client may pass to unikit_init.
ErrHandlers == {NULL_PTR, "unikit_err"}

\* The pf arguments a client may pass to unikit_fold.
FoldPointers == {NULL_PTR, "fold"}

\* The values of cv where the code changes its behaviour, taken at the
\* lower edge of each band.
Edges == {0, 256, 55296, 57344, 63744, 65536, 131072, 1114112}

\* Codepoints around the records of the astral tables, and in plane 1.
Probes == {257, 120832, 131073, 131074, 131075, 131076, 196607, 196608,
           196609, 1114110}

CodePoints ==
  UNION { (e - CvSpread)..(e + CvSpread - 1) : e \in Edges }
    \cup Probes \cup {INT32_MIN, INT32_MAX}

\* The keys in the order in which unikit_init decodes their tables.
KeyList ==
  << UNIKIT_DATA_KEY_CASE_LOWER, UNIKIT_DATA_KEY_CASE_UPPER,
     UNIKIT_DATA_KEY_CASE_DATA, UNIKIT_DATA_KEY_GCAT_CORE,
     UNIKIT_DATA_KEY_GCAT_GEN_LOW, UNIKIT_DATA_KEY_GCAT_GEN_HIGH,
     UNIKIT_DATA_KEY_GCAT_BITMAP, UNIKIT_DATA_KEY_GCAT_ASTRAL >>

\* decodeUint16Array on the string pStr, for a calloc that succeeds and for
\* one that fails.
DecodeBoth(pStr) ==
  << decodeUint16Array(pStr, TRUE), decodeUint16Array(pStr, FALSE) >>

\* Decoded[d][k] is DecodeBoth of the string of key KeyList[k] in data
\* module d.
Decoded ==
  Explicit([d \in 1..Len(DataSets) |->
    Explicit([k \in 1..8 |-> DecodeBoth(unikit_data_fetch(d, KeyList[k]))])])

\* The eight calls of decodeUint16Array that unikit_init makes on data
\* module d when the first nalloc calls of calloc succeed.
DecodeAll(d, nalloc) ==
  [k \in 1..8 |-> Decoded[d][k][IF k <= nalloc THEN 1 ELSE 2]]

\* The record of a call: the function, its arguments (cv is 0 and the
\* pointers are NULL where the function has no such parameter), m_init on
\* entry, the outcome, and the callback that raiseErr invoked.
Call(op, cv, pf, fpErr, o, via) ==
  [op |-> op, cv |-> cv, pf |-> pf, fpErr |-> fpErr, pre |-> m_init,
   err |-> o.err, ret |-> o.ret, out |-> o.out, reads |-> o.reads,
   lens |-> o.lens, via |-> IF o.err # 0 THEN via ELSE NoCallback]

Init ==
  /\ m_err = NULL_PTR
  /\ m_init = 0
  /\ m_case_lower = NULL /\ m_case_upper = NULL /\ m_case_data = NULL
  /\ m_case_lower_len = 0 /\ m_case_upper_len = 0 /\ m_case_data_len = 0
  /\ m_gcat_core = NULL /\ m_gcat_gen_low = NULL /\ m_gcat_gen_high = NULL
  /\ m_gcat_bitmap = NULL /\ m_gcat_astral = NULL
  /\ m_gcat_core_len = 0 /\ m_gcat_gen_low_len = 0 /\ m_gcat_gen_high_len = 0
  /\ m_gcat_bitmap_len = 0 /\ m_gcat_astral_len = 0
  /\ alive = TRUE
  /\ last = Call("none", 0, NULL_PTR, NULL_PTR,
                 Outcome(0, NoValue, NotWritten, {}, {}), NoCallback)
  /\ inits = 0

\* A variant of the test that never finds the module initialized.
AlreadyInitialized_never == FALSE

\* The test that opens unikit_init.
AlreadyInitialized == m_init # 0

\* A variant of the rejected call that stores its callback before the test.
InitAgain_stores_callback(fpErr) ==
  /\ alive
  /\ AlreadyInitialized
  /\ m_err' = fpErr
  /\ last' = Call("init", 0, NULL_PTR, fpErr,
                  Outcome(419, NoValue, NotWritten, {}, {}), fpErr)
  /\ alive' = FALSE
  /\ UNCHANGED << m_init, tables, inits >>

\* A call of unikit_init(fpErr) on an initialized module.
InitAgain(fpErr) ==
  /\ alive
  /\ AlreadyInitialized
  /\ last' = Call("init", 0, NULL_PTR, fpErr,
                  Outcome(419, NoValue, NotWritten, {}, {}), m_err)
  /\ alive' = FALSE
  /\ UNCHANGED << module, inits >>

\* The index of the first call of decodeUint16Array that raised an error
\* among the eight outcomes r, or 9 when none did.
FirstError(r) ==
  IF \A k \in 1..8 : r[k].err = 0 THEN 9
  ELSE CHOOSE k \in 1..8 : r[k].err # 0 /\ \A j \in 1..(k - 1) : r[j].err = 0

\* The array pointer and the length that the k-th call leaves in the module
\* variables that held ptr and len.
Buf(r, stop, k, ptr) == IF k < stop THEN r[k].buf ELSE ptr
Length(r, stop, k, len) ==
  IF k < stop \/ (k = stop /\ r[k].len # NoValue) THEN r[k].len ELSE len

\* The body of unikit_init(fpErr) on a module that is not initialized; r
\* holds the outcomes of its eight calls of decodeUint16Array, of which the
\* calls up to stop are made.
InitTables(fpErr, r, stop) ==
  /\ m_err' = fpErr
  /\ m_init' = 1
  /\ m_case_lower' = Buf(r, stop, 1, m_case_lower)
  /\ m_case_lower_len' = Length(r, stop, 1, m_case_lower_len)
  /\ m_case_upper' = Buf(r, stop, 2, m_case_upper)
  /\ m_case_upper_len' = Length(r, stop, 2, m_case_upper_len)
  /\ m_case_data' = Buf(r, stop, 3, m_case_data)
  /\ m_case_data_len' = Length(r, stop, 3, m_case_data_len)
  /\ m_gcat_core' = Buf(r, stop, 4, m_gcat_core)
  /\ m_gcat_core_len' = Length(r, stop, 4, m_gcat_core_len)
  /\ m_gcat_gen_low' = Buf(r, stop, 5, m_gcat_gen_low)
  /\ m_gcat_gen_low_len' = Length(r, stop, 5, m_gcat_gen_low_len)
  /\ m_gcat_gen_high' = Buf(r, stop, 6, m_gcat_gen_high)
  /\ m_gcat_gen_high_len' = Length(r, stop, 6, m_gcat_gen_high_len)
  /\ m_gcat_bitmap' = Buf(r, stop, 7, m_gcat_bitmap)
  /\ m_gcat_bitmap_len' = Length(r, stop, 7, m_gcat_bitmap_len)
  /\ m_gcat_astral' = Buf(r, stop, 8, m_gcat_astral)
  /\ m_gcat_astral_len' = Length(r, stop, 8, m_gcat_astral_len)
  /\ last' = Call("init", 0, NULL_PTR, fpErr,
                  Outcome(IF stop = 9 THEN 0 ELSE r[stop].err,
                          NoValue, NotWritten, {}, {}), fpErr)
  /\ alive' = (stop = 9)
  /\ inits' = IF stop = 9 THEN inits + 1 ELSE inits

TablesOf(fpErr, r) == InitTables(fpErr, r, FirstError(r))

\* A call of unikit_init(fpErr) on a module that is not initialized, linked
\* with data module d.
unikit_init(fpErr, d, nalloc) ==
  /\ alive
  /\ ~AlreadyInitialized
  /\ TablesOf(fpErr, DecodeAll(d, nalloc))

\* A call of unikit_valid(cv).
Valid(cv) ==
  /\ alive
  /\ last' = Call("valid", cv, NULL_PTR, NULL_PTR,
                  Outcome(0, unikit_valid(cv), NotWritten, {}, {}), m_err)
  /\ UNCHANGED << module, alive, inits >>

\* A call of unikit_fold(pf, cv).
Fold(pf, cv) ==
  LET o == unikit_fold(pf, cv) IN
  /\ alive
  /\ last' = Call("fold", cv, pf, NULL_PTR, o, m_err)
  /\ alive' = (o.err = 0)
  /\ UNCHANGED << module, inits >>

\* A call of unikit_category(cv).
Category(cv) ==
  LET o == unikit_category(cv) IN
  /\ alive
  /\ last' = Call("category", cv, NULL_PTR, NULL_PTR, o, m_err)
  /\ alive' = (o.err = 0)
  /\ UNCHANGED << module, inits >>

Next ==
  \/ \E fpErr \in ErrHandlers, d \in 1..Len(DataSets), nalloc \in 0..8 :
       unikit_init(fpErr, d, nalloc)
  \/ \E fpErr \in ErrHandlers : InitAgain(fpErr)
  \/ \E cv \in CodePoints : Valid(cv)
  \/ \E pf \in FoldPointers, cv \in CodePoints : Fold(pf, cv)
  \/ \E cv \in CodePoints : Category(cv)

Spec == Init /\ [][Next]_vars

(***************************************************************************)
(* The lifecycle                                                           *)
(***************************************************************************)

\* The last call was a query: unikit_fold or unikit_category.
Query == last.op \in {"fold", "category"}

\* The last call returned to its caller.
Returned == last.err = 0

\* The errors that unikit_fold and unikit_category raise on a module that
\* is not initialized, and the one unikit_init raises on one that is.
NotInitializedErrors == {485, 589}
InitializedError == 419

\* C1: a fold or category call returns a result only if a call of init
\* completed before it, and at most one call of init ever completes; a fold
\* or category call before any init raises a fatal usage error whatever its
\* arguments, and a call of init after a first init raises a fatal usage
\* error.
C1_InitOnceBeforeQueries ==
  /\ inits <= 1
  /\ (Query /\ Returned) => (inits = 1 /\ last.pre # 0)
  /\ (Query /\ inits = 0) =>
       (last.err \in NotInitializedErrors /\ last.ret = NoValue /\ ~alive)
  /\ (last.op = "init" /\ last.pre # 0) =>
       (inits = 1 /\ last.err = InitializedError /\ ~alive)

\* A second call of unikit_init was made after one that completed, and was
\* stopped.
C1_Witness ==
  /\ last.op = "init" /\ inits = 1 /\ last.pre # 0
  /\ last.err = InitializedError

(***************************************************************************)
(* unikit_category: totality                                               *)
(***************************************************************************)

\* Every entry of the trie pTrie of depth 4 that a walk can reach, from the
\* table at tptr on level i, lies within the array, and every payload on
\* the last level is in S.
RECURSIVE TrieHolds(_, _, _, _, _)
TrieHolds(pTrie, tlen, tptr, i, S) ==
  \A j \in 0..15 :
    /\ tptr + j < tlen
    /\ IF i < 3
         THEN pTrie[tptr + j + 1] # 65535 =>
                TrieHolds(pTrie, tlen, pTrie[tptr + j + 1] * 16, i + 1, S)
         ELSE pTrie[tptr + j + 1] \in S

\* The trie is closed: no walk leaves the array.
TrieClosed(pTrie, tlen) == tlen >= 16 /\ TrieHolds(pTrie, tlen, 0, 0, 0..65535)

\* The tables that unikit_category uses for cv are laid out as the data
\* model requires: a core table of 256 words, a bitmap that covers cv and
\* closed tries, an astral table of one or more whole records.
BandTablesSound(cv) ==
  IF cv >= 0 /\ cv <= 255 THEN m_gcat_core_len = 256
  ELSE IF cv >= 256 /\ cv <= 131071
    THEN /\ (cv - 256) \div 8 < m_gcat_bitmap_len
         /\ IF cv <= 65535
              THEN TrieClosed(m_gcat_gen_low, m_gcat_gen_low_len)
              ELSE TrieClosed(m_gcat_gen_high, m_gcat_gen_high_len)
  ELSE IF cv >= 131072 /\ cv <= 1114111
    THEN m_gcat_astral_len >= 4 /\ m_gcat_astral_len % 4 = 0
  ELSE TRUE

C3_OutOfRangeIsCn ==
  (last.op = "category" /\ last.pre # 0 /\ (last.cv < 0 \/ last.cv > 1114111)) =>
    /\ Returned
    /\ last.ret = UNIKIT_GCAT_Cn
    /\ last.reads = {}
    /\ last.lens = {}

\* category(0x110000) returned Cn on a module whose astral table it could
\* not have searched.
C3_Witness ==
  /\ last.op = "category" /\ last.pre # 0 /\ last.cv = 1114112
  /\ last.ret = UNIKIT_GCAT_Cn
  /\ m_gcat_astral_len % 4 # 0

(***************************************************************************)
(* unikit_category: the codes returned                                     *)
(***************************************************************************)

\* The tables that unikit_category uses for cv hold category codes where
\* the data model places them: the entries of the core table, the payloads
\* of the general tries, the fourth word of each astral record.
BandTablesHoldCodes(cv) ==
  IF cv >= 0 /\ cv <= 255
    THEN \A i \in 1..m_gcat_core_len : m_gcat_core[i] \in GcatSet
  ELSE IF cv >= 256 /\ cv <= 65535
    THEN m_gcat_gen_low_len >= 16
         /\ TrieHolds(m_gcat_gen_low, m_gcat_gen_low_len, 0, 0,
                      GcatSet \cup {65535})
  ELSE IF cv >= 65536 /\ cv <= 131071
    THEN m_gcat_gen_high_len >= 16
         /\ TrieHolds(m_gcat_gen_high, m_gcat_gen_high_len, 0, 0,
                      GcatSet \cup {65535})
  ELSE IF cv >= 131072 /\ cv <= 1114111
    THEN \A i \in 1..(m_gcat_astral_len \div 4) :
           m_gcat_astral[4 * i] \in GcatSet
  ELSE TRUE

AstralCount == m_gcat_astral_len \div 4
AstralPlane(i) == m_gcat_astral[(4 * i) - 3]
AstralLow(i) == m_gcat_astral[(4 * i) - 2]
AstralHigh(i) == m_gcat_astral[(4 * i) - 1]
AstralCat(i) == m_gcat_astral[4 * i]
AstralFirst(i) == (AstralPlane(i) * 65536) + AstralLow(i)
AstralLast(i) == (AstralPlane(i) * 65536) + AstralHigh(i)

\* The astral table holds whole records, sorted ascending by (plane, low)
\* and not overlapping.
AstralSorted ==
  /\ m_gcat_astral_len >= 4 /\ m_gcat_astral_len % 4 = 0
  /\ \A i \in 1..AstralCount : AstralLow(i) <= AstralHigh(i)
  /\ \A i \in 1..(AstralCount - 1) : AstralLast(i) < AstralFirst(i + 1)

\* C5: for every record (plane, low, high, cat) of a sorted astral table
\* without overlaps, category(plane * 0x10000 + offset) is cat for every
\* offset in low..high, and category is Cn for every codepoint strictly
\* between the ranges of two adjacent records.
C5_AstralRecords ==
  (last.op = "category" /\ last.pre # 0 /\ AstralSorted
     /\ last.cv >= 131072 /\ last.cv <= 1114111) =>
    /\ Returned
    /\ \A i \in 1..AstralCount :
         (AstralFirst(i) <= last.cv /\ last.cv <= AstralLast(i)) =>
           last.ret = AstralCat(i)
    /\ \A i \in 1..(AstralCount - 1) :
         (AstralLast(i) < last.cv /\ last.cv < AstralFirst(i + 1)) =>
           last.ret = UNIKIT_GCAT_Cn

\* category returned the category of the second of three records, for the
\* codepoint at the upper end of its range.
C5_Witness ==
  /\ last.op = "category" /\ Returned /\ AstralSorted
  /\ AstralCount = 3
  /\ last.cv = AstralLast(2)
  /\ last.ret = AstralCat(2)

(***************************************************************************)
(* unikit_category: the general band                                       *)
(***************************************************************************)

\* The 2-bit field of cv in the bitmap.
BitmapField(cv) ==
  (m_gcat_bitmap[((cv - 256) \div 8) + 1] \div (4 ^ ((cv - 256) % 8))) % 4

\* The payload of a depth-4 trie t for a 16-bit key, or 0xFFFF when a node
\* on the way has no entry.
TriePayload(t, key) ==
  LET Nybble(k) == (key \div (16 ^ k)) % 16
      n1 == t[Nybble(3) + 1]
      n2 == IF n1 = 65535 THEN 65535 ELSE t[(n1 * 16) + Nybble(2) + 1]
      n3 == IF n2 = 65535 THEN 65535 ELSE t[(n2 * 16) + Nybble(1) + 1]
  IN  IF n3 = 65535 THEN 65535 ELSE t[(n3 * 16) + Nybble(0) + 1]

\* The category of cv in 0x100 .. 0x1FFFF by the rules of the general band.
GeneralReference(cv) ==
  LET f == BitmapField(cv)
      payload == IF cv <= 65535 THEN TriePayload(m_gcat_gen_low, cv)
                 ELSE TriePayload(m_gcat_gen_high, cv % 65536)
  IN  CASE f = 1 -> UNIKIT_GCAT_Lo
        [] f = 2 -> UNIKIT_GCAT_Ll
        [] f = 3 -> UNIKIT_GCAT_So
        [] OTHER ->
             IF payload # 65535 THEN payload
             ELSE IF cv \in 55296..57343 THEN UNIKIT_GCAT_Cs
             ELSE IF cv \in 57344..63743 THEN UNIKIT_GCAT_Co
             ELSE UNIKIT_GCAT_Cn

\* C6: for every cv in 0x100..0x1FFFF the value of category is the one of
\* the reference: Lo, Ll or So for the bitmap fields 1, 2, 3, with no trie
\* consulted; for the field 0 the payload of the low trie (cv <= 0xFFFF) or
\* of the high trie (key cv & 0xFFFF), and for an absent payload Cs in
\* 0xD800..0xDFFF, Co in 0xE000..0xF8FF and Cn elsewhere.
C6_GeneralBand ==
  (last.op = "category" /\ Returned /\ last.cv >= 256 /\ last.cv <= 131071) =>
    /\ last.ret = GeneralReference(last.cv)
    /\ BitmapField(last.cv) # 0 =>
         /\ last.lens = {"gcat_bitmap"}
         /\ last.reads = {<<"gcat_bitmap", (last.cv - 256) \div 8>>}
    /\ BitmapField(last.cv) = 0 =>
         last.lens = {"gcat_bitmap",
                      IF last.cv <= 65535 THEN "gcat_gen_low"
                                          ELSE "gcat_gen_high"}

\* category returned Cs for 0xD800 after the low trie had no entry for it.
C6_Witness ==
  /\ last.op = "category" /\ Returned /\ last.cv = 55296
  /\ BitmapField(last.cv) = 0
  /\ TriePayload(m_gcat_gen_low, last.cv) = 65535
  /\ last.ret = UNIKIT_GCAT_Cs

(***************************************************************************)
(* unikit_category: the core band                                          *)
(***************************************************************************)

\* The error that unikit_category raises for a core table of a wrong length.
CoreLengthError == 599

\* C7: for every cv in 0x00..0xFF, category(cv) is the entry of the core
\* table at index cv when the decoded core table has exactly 256 words; when
\* its length is anything else, category(cv) raises a fatal error and
\* returns no value.
C7_CoreBand ==
  (last.op = "category" /\ last.cv >= 0 /\ last.cv <= 255) =>
    IF m_gcat_core_len = 256
      THEN Returned /\ last.ret = m_gcat_core[last.cv + 1]
      ELSE /\ ~Returned /\ last.ret = NoValue /\ ~alive
           /\ last.pre # 0 => last.err = CoreLengthError

\* category(0xFF) returned the last entry of a core table of 256 words.
C7_Witness ==
  /\ last.op = "category" /\ last.cv = 255 /\ Returned
  /\ m_gcat_core_len = 256
  /\ last.ret = m_gcat_core[256]

(***************************************************************************)
(* unikit_fold                                                             *)
(***************************************************************************)

\* The validity of a codepoint as the specification defines it.
IsValidCodepoint(cv) ==
  /\ 0 <= cv /\ cv <= 1114111
  /\ ~(55296 <= cv /\ cv <= 57343)

\* C8: for every valid cv, fold(cv) returns a sequence of 1 to 4
\* codepoints, and its return value is 0 (trivial) if and only if the length
\* is 1 and the single codepoint is cv; in every other case it is not 0.
C8_FoldLengthAndFlag ==
  (last.op = "fold" /\ Returned) =>
    /\ IsValidCodepoint(last.cv)
    /\ last.out.len \in 1..4
    /\ Len(last.out.cpa) = 4
    /\ last.ret \in {0, 1}
    /\ (last.ret = 0) <=> (last.out.len = 1 /\ last.out.cpa[1] = last.cv)

\* fold returned 0 for a codepoint that the tables map to itself.
C8_Witness ==
  /\ last.op = "fold" /\ Returned
  /\ "case_data" \in last.lens
  /\ last.out.len = 1 /\ last.out.cpa[1] = last.cv
  /\ last.ret = 0

\* The errors that unikit_fold raises for an invalid cv, for a NULL pf and
\* on a module that is not initialized.
InvalidCodepointError == 493
NullFoldError == 490
FoldNotInitializedError == 485

\* The call stopped before unikit_fold wrote the structure or read a table.
FoldUntouched ==
  /\ last.out = NotWritten /\ last.reads = {} /\ last.lens = {}
  /\ last.ret = NoValue /\ ~alive

\* C9, as the specification states it: fold fails with the
\* invalid-codepoint error for every cv that is not valid, before the
\* structure is written and before any table is read, and returns nothing.
C9_AsStated ==
  (last.op = "fold" /\ ~IsValidCodepoint(last.cv)) =>
    (last.err = InvalidCodepointError /\ FoldUntouched)

\* C9, amended: on an initialized module and with a structure to fill, fold
\* fails with the invalid-codepoint error for every cv that is not valid;
\* on a module that is not initialized it fails with the not-initialized
\* error, and with no structure to fill with the error for that; each is
\* raised before the structure is written and before any table is read, and
\* nothing is returned.
C9_InvalidCodepointAfterInit ==
  (last.op = "fold" /\ ~IsValidCodepoint(last.cv)) =>
    /\ FoldUntouched
    /\ last.err = IF last.pre = 0 THEN FoldNotInitializedError
                  ELSE IF last.pf = NULL_PTR THEN NullFoldError
                  ELSE InvalidCodepointError

\* fold was stopped with the invalid-codepoint error for a surrogate.
C9_Witness ==
  /\ last.op = "fold" /\ last.pre # 0 /\ last.pf # NULL_PTR
  /\ last.cv = 57343
  /\ last.err = InvalidCodepointError

(***************************************************************************)
(* unikit_valid                                                            *)
(***************************************************************************)

\* C10: unikit_valid(cv) is true exactly when 0 <= cv <= 0x10FFFF and cv is
\* not in 0xD800..0xDFFF, for every int32_t cv; it answers so in every
\* lifecycle state, before init too, and changes no module state.
C10_ValidCodepoint ==
  /\ [](last.op = "valid" =>
          /\ Returned /\ alive
          /\ last.ret = IF IsValidCodepoint(last.cv) THEN 1 ELSE 0)
  /\ [][last'.op = "valid" => (module' = module /\ inits' = inits)]_vars

\* Before init, unikit_valid took the last codepoint for valid.
C10_Witness ==
  /\ last.op = "valid" /\ last.pre = 0 /\ m_init = 0
  /\ last.cv = 1114111
  /\ last.ret = 1

(***************************************************************************)
(* The decoder on its own: decodeUint16Array is applied to strings that    *)
(* are the encoded form of a table, or one change away from it.            *)
(***************************************************************************)

\* The words that the tables of the decoder's inputs hold.
InputWords == {0, 4660, 65535}

\* The tables of n words over InputWords.
RECURSIVE WordTables(_)
WordTables(n) ==
  IF n = 0 THEN { << >> }
  ELSE { Append(ws, w) : ws \in WordTables(n - 1), w \in InputWords }

\* The characters that take the place of one of a string: "=", a character
\* outside the alphabet, and digits of the values 1, 40 and 63.
ChangedChars == {CH_Eq, 42, 66, 111, CH_Slash}

\* What is added to the end of a string.
AddedTails ==
  { << CH_Eq >>, << 65, 65, 65, CH_Eq >>, << 65, 65, 65, 65 >>,
    << CH_Eq, CH_Eq, CH_Eq, CH_Eq >>,
    << 66, 111, CH_Slash, 66, 111, CH_Eq, CH_Eq, CH_Eq >> }

\* The strings one change away from s: a character replaced, a tail added,
\* the last character removed.
Changed(s) ==
  { [s EXCEPT ![p] = c] : p \in 1..Len(s), c \in ChangedChars }
    \cup { s \o t : t \in AddedTails }
    \cup (IF Len(s) > 0 THEN { SubSeq(s, 1, Len(s) - 1) } ELSE {})

\* Longer tables: up to two full groups and a remainder.
LongTables ==
  { << 4660, 0, 65535, 43981, 1 >>,
    << 65535, 4660, 0, 1, 32768, 43981 >>,
    << 1, 2, 3, 4, 5, 6, 7 >>,
    << 43981, 65535, 0, 4660, 32768, 1, 21845, 65534 >> }

\* The strings handed to decodeUint16Array.
InputStrings ==
  UNION { {Encode(ws)} \cup Changed(Encode(ws)) :
            ws \in UNION { WordTables(n) : n \in 0..MaxWords } \cup LongTables }

\* A call of decodeUint16Array(pStr, &len); mem tells whether calloc
\* succeeds.
Decode(pStr, mem) ==
  LET r == decodeUint16Array(pStr, mem) IN
  /\ last' = [op |-> "decode", pStr |-> pStr, mem |-> mem,
              err |-> r.err, len |-> r.len, buf |-> r.buf]
  /\ UNCHANGED << module, alive, inits >>

\* Each run makes one call.
DecodeNext ==
  /\ last.op = "none"
  /\ \E pStr \in InputStrings, mem \in BOOLEAN : Decode(pStr, mem)

DecodeSpec == Init /\ [][DecodeNext]_vars

\* The last call of decodeUint16Array returned an array.
Accepted == last.op = "decode" /\ last.err = 0

\* The alphabet of the encoded strings.
Alphabet == (65..90) \cup (97..122) \cup (48..57) \cup {CH_Plus, CH_Slash}

\* The number of 8-character groups of s that do not end in "=", and the
\* number of characters that follow them.
FullGroups(s) == Cardinality({ g \in 1..(Len(s) \div 8) : s[8 * g] # CH_Eq })
Remainder(s) == Len(s) - (8 * FullGroups(s))

\* C12: for every string that the decoder accepts, the decoded array has
\* exactly groups * 3 + extra words, where groups is the number of
\* 8-character groups that do not end in "=" and extra is 0, 1 or 2 for a
\* remainder of 0, 4 or 8 characters.
C12_DecodedLength ==
  Accepted =>
    /\ Remainder(last.pStr) \in {0, 4, 8}
    /\ Len(last.buf) = (FullGroups(last.pStr) * 3) + (Remainder(last.pStr) \div 4)
    /\ last.len = Len(last.buf)

\* A string of one full group and a remainder of 8 characters was decoded
\* to 5 words.
C12_Witness ==
  /\ Accepted
  /\ FullGroups(last.pStr) = 1 /\ Remainder(last.pStr) = 8
  /\ Len(last.buf) = 5

(***************************************************************************)
(* The decoded words, bit by bit                                           *)
(***************************************************************************)

\* The 64 digits in the order of their values: A-Z, a-z, 0-9, "+", "/".
DigitOrder ==
  << 65, 66, 67, 68, 69, 70, 71, 72, 73, 74, 75, 76, 77, 78, 79, 80, 81, 82,
     83, 84, 85, 86, 87, 88, 89, 90,
     97, 98, 99, 100, 101, 102, 103, 104, 105, 106, 107, 108, 109, 110, 111,
     112, 113, 114, 115, 116, 117, 118, 119, 120, 121, 122,
     48, 49, 50, 51, 52, 53, 54, 55, 56, 57, 43, 47 >>

\* The value of the digit c; the padding "=" counts as six 0 bits.
DigitValue(c) ==
  IF c = CH_Eq THEN 0 ELSE (CHOOSE v \in 1..64 : DigitOrder[v] = c) - 1

\* The bits of the n characters of s from position from (from 1), six to
\* the character, the first character first and every value high bit first.
DigitBits(s, from, n) ==
  [i \in 1..(6 * n) |->
     (DigitValue(s[from + ((i - 1) \div 6)]) \div (2 ^ (5 - ((i - 1) % 6)))) % 2]

\* The number that the 16 bits of b from position from spell, high bit
\* first.
RECURSIVE Spelled(_, _, _)
Spelled(b, from, n) ==
  IF n = 0 THEN 0 ELSE (2 * Spelled(b, from, n - 1)) + b[from + n - 1]

Word16(b, from) == Spelled(b, from, 16)

\* C16: each full group of 8 digits decodes to exactly three 16-bit words:
\* the eight 6-bit values, the first most significant, make 48 bits, and the
\* words are the bits 47..32, 31..16 and 15..0 in this order, at consecutive
\* positions of the array in the order of the groups.
C16_FullGroups ==
  Accepted =>
    \A g \in 0..(FullGroups(last.pStr) - 1) :
      LET b == DigitBits(last.pStr, (8 * g) + 1, 8) IN
      /\ last.buf[(3 * g) + 1] = Word16(b, 1)
      /\ last.buf[(3 * g) + 2] = Word16(b, 17)
      /\ last.buf[(3 * g) + 3] = Word16(b, 33)

\* Two full groups were decoded to six words.
C16_Witness ==
  /\ Accepted
  /\ FullGroups(last.pStr) = 2 /\ Remainder(last.pStr) = 0
  /\ last.buf = << 65535, 4660, 0, 1, 32768, 43981 >>

\* C17, as the specification states it: a remainder of 4 characters decodes
\* to one extra word, the low 16 bits of the 24 bits of its 4 characters
\* shifted right by 2.
C17_AsStated ==
  (Accepted /\ Remainder(last.pStr) = 4) =>
    /\ Len(last.buf) = (3 * FullGroups(last.pStr)) + 1
    /\ last.buf[Len(last.buf)] =
         Word16(DigitBits(last.pStr, Len(last.pStr) - 3, 4), 7)

\* C17, amended: a remainder of 4 characters that the decoder accepts is 3
\* digits and "="; it decodes to exactly one extra word, the 18 bits of the
\* 3 digits shifted right by 2.
C17_OneExtraWord ==
  (Accepted /\ Remainder(last.pStr) = 4) =>
    LET slen == Len(last.pStr) IN
    /\ last.pStr[slen] = CH_Eq
    /\ \A i \in (slen - 3)..(slen - 1) : last.pStr[i] \in Alphabet
    /\ Len(last.buf) = (3 * FullGroups(last.pStr)) + 1
    /\ last.buf[Len(last.buf)] = Word16(DigitBits(last.pStr, slen - 3, 3), 1)

\* A remainder was decoded whose third digit has a bit that the shift
\* discards.
C17_Witness ==
  /\ Accepted /\ Remainder(last.pStr) = 4
  /\ DigitValue(last.pStr[Len(last.pStr) - 1]) % 4 # 0
  /\ FullGroups(last.pStr) = 1

\* The string s ends in a remainder of 8 characters that are digits
\* followed by "=" only, after full groups of digits.
PaddedRemainder(s) ==
  /\ Remainder(s) = 8
  /\ \A i \in 1..(Len(s) - 8) : s[i] \in Alphabet
  /\ \E n \in 1..7 :
       /\ \A i \in (Len(s) - 7)..(Len(s) - 8 + n) : s[i] \in Alphabet
       /\ \A i \in (Len(s) - 7 + n)..Len(s) : s[i] = CH_Eq

\* C18, as the specification states it: a remainder of 8 characters, with
\* its "=" padding, decodes to exactly two extra words.
C18_AsStated ==
  (last.op = "decode" /\ last.mem /\ PaddedRemainder(last.pStr)) =>
    (Accepted /\ Len(last.buf) = (3 * FullGroups(last.pStr)) + 2)

\* C18, amended: a remainder of 8 characters that the decoder accepts is 6
\* digits and "=="; it decodes to exactly two extra words, the 36 bits of
\* the 6 digits shifted right by 4 and split into two 16-bit words, the high
\* word first.  Every other remainder of 8 characters is rejected.
C18_TwoExtraWords ==
  (last.op = "decode" /\ Remainder(last.pStr) = 8) =>
    LET slen == Len(last.pStr)
        sixAndTwo ==
          /\ \A i \in (slen - 7)..(slen - 2) : last.pStr[i] \in Alphabet
          /\ last.pStr[slen - 1] = CH_Eq /\ last.pStr[slen] = CH_Eq
    IN
    /\ ~sixAndTwo => ~Accepted
    /\ Accepted =>
         /\ Len(last.buf) = (3 * FullGroups(last.pStr)) + 2
         /\ last.buf[Len(last.buf) - 1] =
              Word16(DigitBits(last.pStr, slen - 7, 6), 1)
         /\ last.buf[Len(last.buf)] =
              Word16(DigitBits(last.pStr, slen - 7, 6), 17)

\* A remainder of 6 digits and "==" was decoded to two different words,
\* after a full group.
C18_Witness ==
  /\ Accepted /\ Remainder(last.pStr) = 8
  /\ FullGroups(last.pStr) = 1
  /\ last.buf[4] = 43981 /\ last.buf[5] = 1

(***************************************************************************)
(* The strings that the decoder rejects                                    *)
(***************************************************************************)

\* The errors of decodeUint16Array for a malformed string.
DecodeErrors == {153, 166, 191, 225, 256, 286}

\* The number of characters of the remainder of s, by its length and its
\* last character, and the positions of s that hold digits.
TailOf(s) ==
  IF Len(s) % 8 = 4 THEN 4 ELSE IF s[Len(s)] = CH_Eq THEN 8 ELSE 0
DataPositions(s) == 1..((Len(s) - TailOf(s)) + (3 * (TailOf(s) \div 4)))

\* The string s is malformed: its length is 0 or no multiple of 4, or a
\* data position holds no digit, or a position after the data holds no "=",
\* or there is a "=" before the final 4 characters.
Malformed(s) ==
  \/ Len(s) = 0
  \/ Len(s) % 4 # 0
  \/ \E i \in DataPositions(s) : s[i] \notin Alphabet
  \/ \E i \in (1..Len(s)) \ DataPositions(s) : s[i] # CH_Eq
  \/ \E i \in 1..(Len(s) - 4) : s[i] = CH_Eq

\* C19: the decoder raises a fatal error and returns no array for every
\* malformed string: a length that is 0 or no multiple of 4, a character
\* outside the alphabet at a data position, a character other than "=" after
\* the data of the remainder, a "=" that is not within the final 4
\* characters.
C19_MalformedRejected ==
  (last.op = "decode" /\ Malformed(last.pStr)) =>
    /\ last.err # 0
    /\ last.buf = NULL
    /\ last.mem => last.err \in DecodeErrors

\* A string with "=" at the end of its first group, and 4 characters after
\* it, was rejected.
C19_Witness ==
  /\ last.op = "decode" /\ last.mem
  /\ Len(last.pStr) = 12 /\ last.pStr[8] = CH_Eq
  /\ \A i \in 1..7 : last.pStr[i] \in Alphabet
  /\ last.err = 166

(***************************************************************************)
(* The module after init                                                   *)
(***************************************************************************)

\* The outcome recorded in last is the one of o.
SameOutcome(o) ==
  /\ last.err = o.err /\ last.ret = o.ret /\ last.out = o.out
  /\ last.reads = o.reads /\ last.lens = o.lens

FoldReference(cv) ==
  IF cv >= 131072
    THEN [cpa |-> << cv >>, tables |-> {}]
    ELSE
    LET r == IF cv <= 65535 THEN TriePayload(m_case_lower, cv % 65536)
                            ELSE TriePayload(m_case_upper, cv % 65536)
        trie == IF cv <= 65535 THEN "case_lower" ELSE "case_upper"
        n == (r % 4) + 1
        at == r \div 4
    IN  IF r = 65535
          THEN [cpa |-> << cv >>, tables |-> {trie}]
          ELSE [cpa |-> [i \in 1..n |->
                           m_case_data[at + i]
                             + (IF cv >= 65536 THEN 65536 ELSE 0)],
                tables |-> {trie, "case_data"}]

\* C13: for every valid cv, fold(cv) is the reference: for cv >= 0x20000
\* the result is [cv] and no table is read; otherwise the lower trie
\* (cv <= 0xFFFF) or the upper trie is queried at depth 4 with the key
\* cv & 0xFFFF; an absent payload gives [cv]; a payload r gives (r & 3) + 1
\* codepoints, the words of the case data array from index r >> 2, each
\* increased by 0x10000 when cv is in plane 1.
C13_FoldMapping ==
  (last.op = "fold" /\ Returned) =>
    LET ref == FoldReference(last.cv) IN
    /\ SubSeq(last.out.cpa, 1, last.out.len) = ref.cpa
    /\ last.lens = ref.tables
    /\ { t[1] : t \in last.reads } = ref.tables
    /\ last.cv >= 131072 => last.reads = {}

\* fold returned the two codepoints of the upper plane that the tables
\* hold for 0x1FFFF.
C13_Witness ==
  /\ last.op = "fold" /\ Returned /\ last.cv = 131071
  /\ last.out.len = 2
  /\ last.out.cpa[1] = 65536 + m_case_data[2]
  /\ last.out.cpa[2] = 65536 + m_case_data[3]

(***************************************************************************)
(* queryTrie on its own: the walk is applied to arrays of a few tables, at *)
(* every depth.                                                            *)
(***************************************************************************)

\* An array of n tables in which entry j of table t names table
\* (t + j) mod 3; the entries 13 are absent, the entries 14 hold a payload
\* that names no table of the array.
LinkedTables(n) ==
  Explicit([i \in 1..(16 * n) |->
     LET t == (i - 1) \div 16
         j == (i - 1) % 16
     IN  IF j = 13 THEN 65535
         ELSE IF j = 14 THEN 4660 + t
         ELSE (t + j) % 3])

\* The arrays handed to queryTrie: three tables, two tables (so that the
\* entries naming table 2 lead outside), and three tables cut in the middle
\* of the last.
TrieArrays ==
  << LinkedTables(3), LinkedTables(2), SubSeq(LinkedTables(3), 1, 40) >>

\* The nybbles that the keys are made of.
KeyNybbles == {0, 1, 13, 14}

\* The keys of n nybbles over KeyNybbles.
RECURSIVE KeysOf(_)
KeysOf(n) ==
  IF n = 0 THEN {0}
  ELSE { (k * 16) + d : k \in KeysOf(n - 1), d \in KeyNybbles }

\* The keys handed to queryTrie: uint32_t values below 2^31, which is as far
\* as the integers of the model reach.
TrieKeys == { k + (h * (16 ^ 5)) : k \in KeysOf(5), h \in {0, 1, 224, 2001} }

\* A call of queryTrie(pTrie, tlen, key, depth) on array a.
Query_Trie(a, key, depth) ==
  LET q == queryTrie(TrieArrays[a], Len(TrieArrays[a]), key, depth) IN
  /\ last' = [op |-> "queryTrie", a |-> a, key |-> key, depth |-> depth,
              err |-> q.err, r |-> q.r, reads |-> q.reads]
  /\ UNCHANGED << module, alive, inits >>

\* Each run makes one call.
TrieNext ==
  /\ last.op = "none"
  /\ \E a \in 1..Len(TrieArrays), key \in TrieKeys, depth \in 0..9 :
       Query_Trie(a, key, depth)

TrieSpec == Init /\ [][TrieNext]_vars

\* The word of array t at offset o, or -2 where the array has no such word.
WordAt(t, o) == IF o \in 0..(Len(t) - 1) THEN t[o + 1] ELSE -2

\* The walk as the trie query engine describes it: Offset[i] is the node
\* offset before nybble i is consumed, -1 once an entry was absent, -2 once
\* the walk left the array.
ReferenceWalk(t, key, depth) ==
  LET Nybble(i) == (key \div (16 ^ (depth - 1 - i))) % 16
      Offset[i \in 0..(depth - 1)] ==
        IF i = 0 THEN 0
        ELSE IF Offset[i - 1] < 0 THEN Offset[i - 1]
        ELSE LET w == WordAt(t, Offset[i - 1] + Nybble(i - 1)) IN
             IF w = 65535 THEN -1
             ELSE IF w = -2 THEN -2
             ELSE w * 16
  IN  IF Offset[depth - 1] = -1 THEN 65535
      ELSE IF Offset[depth - 1] = -2 THEN -2
      ELSE WordAt(t, Offset[depth - 1] + (key % 16))

\* The key without its bits above the lowest 4 * depth; a key of the model
\* has no bits above the lowest 32.
LowNybbles(key, depth) == IF depth >= 8 THEN key ELSE key % (16 ^ depth)

\* C14: for every trie array, key and depth in 1..8 where no bounds error
\* occurs, queryTrie returns the reference walk: from node offset 0, for
\* i = 0 .. depth-2 it reads the word at offset + nybble i (most significant
\* first), returns 0xFFFF at once if that word is 0xFFFF and otherwise sets
\* offset to word * 16; it then returns the word at offset + (key & 0xF).
\* Key bits above the lowest 4 * depth bits do not affect the result.
C14_TrieWalk ==
  (last.op = "queryTrie" /\ last.depth \in 1..8 /\ last.err = 0) =>
    /\ last.r = ReferenceWalk(TrieArrays[last.a], last.key, last.depth)
    /\ last.r = queryTrie(TrieArrays[last.a], Len(TrieArrays[last.a]),
                          LowNybbles(last.key, last.depth), last.depth).r

\* A walk of depth 5 went through four nodes to a payload, for a key with
\* bits above the lowest 20.
C14_Witness ==
  /\ last.op = "queryTrie" /\ last.depth = 5 /\ last.err = 0
  /\ last.key >= 16 ^ 5
  /\ Cardinality(last.reads) >= 3
  /\ last.r = 4660 + 2

(***************************************************************************)
(* Reads of the decoded tables stay inside them.                           *)
(***************************************************************************)

\* The decoded length of the table that the reads name.
TableLength(name) ==
  CASE name = "case_lower" -> m_case_lower_len
    [] name = "case_upper" -> m_case_upper_len
    [] name = "case_data" -> m_case_data_len
    [] name = "gcat_core" -> m_gcat_core_len
    [] name = "gcat_gen_low" -> m_gcat_gen_low_len
    [] name = "gcat_gen_high" -> m_gcat_gen_high_len
    [] name = "gcat_bitmap" -> m_gcat_bitmap_len
    [] name = "gcat_astral" -> m_gcat_astral_len

\* The word of a table of tlen words at offset o, or -2 where the offset is
\* outside 0 .. tlen-1.
Inside(t, tlen, o) == IF o \in 0..(tlen - 1) THEN t[o + 1] ELSE -2

\* The payload that four nybbles of key lead to in a table of tlen words,
\* 65535 where an entry is absent, -2 where the path leaves the table.
PathPayload(t, tlen, key) ==
  LET Nybble(k) == (key \div (16 ^ k)) % 16
      Step(n, k) == IF n = 65535 \/ n = -2 THEN n
                    ELSE Inside(t, tlen, (n * 16) + Nybble(k))
  IN  Step(Step(Step(Step(0, 3), 2), 1), 0)

\* The errors that report corrupted table data.
CorruptionErrors == {357, 374, 393, 534, 599, 612, 661}

\* The query of the last call, its parameters accepted, needs a word that
\* its table does not have.
NeedsOutside ==
  LET cv == last.cv IN
  IF last.op = "fold"
    THEN /\ last.pf # NULL_PTR
         /\ cv \in (0..131071) \ (55296..57343)
         /\ LET r == IF cv <= 65535
                       THEN PathPayload(m_case_lower, m_case_lower_len, cv)
                       ELSE PathPayload(m_case_upper, m_case_upper_len,
                                        cv % 65536)
            IN  \/ r = -2
                \/ /\ r # 65535
                   /\ (r \div 4) + (r % 4) + 1 > m_case_data_len
    ELSE IF cv \in 0..255 THEN cv >= m_gcat_core_len
    ELSE IF cv \in 256..131071
      THEN LET offs == (cv - 256) \div 8 IN
           \/ offs >= m_gcat_bitmap_len
           \/ /\ (m_gcat_bitmap[offs + 1] \div (4 ^ ((cv - 256) % 8))) % 4 = 0
              /\ -2 = IF cv <= 65535
                        THEN PathPayload(m_gcat_gen_low, m_gcat_gen_low_len, cv)
                        ELSE PathPayload(m_gcat_gen_high, m_gcat_gen_high_len,
                                         cv % 65536)
    ELSE IF cv \in 131072..1114111
      THEN m_gcat_astral_len < 1 \/ m_gcat_astral_len % 4 # 0
    ELSE FALSE

\* C15: whatever the contents and lengths of the eight decoded tables, a
\* query after init reads a table only at indices within 0 .. length-1, in
\* the trie walk, the fold data copy, the core lookup, the bitmap lookup and
\* the astral search; where the query needs a word outside a table it ends
\* in a fatal data-corruption error and returns nothing, neither an absent
\* payload nor Cn.
C15_ReadsInBounds ==
  (Query /\ last.pre = 1 /\ last.op \in {"fold", "category"}) =>
    /\ \A rd \in last.reads : rd[2] \in 0..(TableLength(rd[1]) - 1)
    /\ NeedsOutside =>
         /\ last.err \in CorruptionErrors
         /\ last.ret = NoValue

\* A category query walked into the low trie, read a node inside it and was
\* stopped by the bounds error before the next read.
C15_Witness ==
  /\ last.op = "category" /\ last.pre = 1
  /\ last.err \in {374, 393}
  /\ \E rd \in last.reads : rd[1] = "gcat_gen_low"
  /\ NeedsOutside

(***************************************************************************)
(* The astral search on its own: unikit_init loads an astral table of up   *)
(* to MaxRecords sorted records, and category is called around their keys. *)
(***************************************************************************)

\* An astral table of n records, two to a plane from plane 2 upwards, with
\* the ranges 4..5 and 8..9 and the categories in the order of GcatList.
SearchTable(n) ==
  Explicit([i \in 1..(4 * n) |->
     LET rec == (i - 1) \div 4
         low == IF rec % 2 = 0 THEN 4 ELSE 8
     IN  CASE (i - 1) % 4 = 0 -> 2 + (rec \div 2)
           [] (i - 1) % 4 = 1 -> low
           [] (i - 1) % 4 = 2 -> low + 1
           [] OTHER -> GcatList[rec + 1]])

\* The codepoints that category is called with: below, on, inside, between
\* and above the ranges of every plane that the tables reach.
SearchProbes ==
  { (p * 65536) + o : p \in 2..(3 + (MaxRecords \div 2)),
                      o \in {0, 3, 4, 5, 6, 8, 9, 10, 65535} }

\* unikit_init(NULL) linked with a data module whose astral table is
\* SearchTable(n) and whose other tables are those of ShortData.
SearchInit(n) ==
  /\ alive
  /\ ~AlreadyInitialized
  /\ TablesOf(NULL_PTR,
       [k \in 1..8 |->
          IF k = 8 THEN decodeUint16Array(Encode(SearchTable(n)), TRUE)
          ELSE decodeUint16Array(StringOf(ShortData, KeyList[k]), TRUE)])

AstralNext ==
  \/ \E n \in 1..MaxRecords : SearchInit(n)
  \/ \E cv \in SearchProbes : Category(cv)

AstralSpec == Init /\ [][AstralNext]_vars

\* The key of record i (from 1) is not above the key (plane, offs).
KeyNotAbove(i, plane, offs) ==
  \/ AstralPlane(i) < plane
  \/ AstralPlane(i) = plane /\ AstralLow(i) <= offs

\* The records are sorted strictly ascending by (plane, lowOffset).
StrictlyAscending ==
  /\ m_gcat_astral_len >= 4 /\ m_gcat_astral_len % 4 = 0
  /\ \A i \in 1..(AstralCount - 1) :
       KeyNotAbove(i, AstralPlane(i + 1), AstralLow(i + 1) - 1)

\* The index (from 0) of the record with the greatest key not above the
\* query key, or 0 when the key of every record is above it.
GreatestNotAbove(plane, offs) ==
  LET S == { i \in 1..AstralCount : KeyNotAbove(i, plane, offs) } IN
  IF S = {} THEN 0
  ELSE (CHOOSE i \in S : \A j \in S : j <= i) - 1

\* A conventional binary search on the half-open interval lo..hi-1 for the
\* number of records whose key is not above the query key.
RECURSIVE UpperBound(_, _, _, _)
UpperBound(plane, offs, lo, hi) ==
  IF lo < hi
    THEN LET mid == lo + ((hi - lo) \div 2) IN
         IF KeyNotAbove(mid + 1, plane, offs)
           THEN UpperBound(plane, offs, mid + 1, hi)
           ELSE UpperBound(plane, offs, lo, mid)
    ELSE lo

\* The index that the conventional search selects.
ConventionalSearch(plane, offs) ==
  LET ub == UpperBound(plane, offs, 0, AstralCount) IN
  IF ub = 0 THEN 0 ELSE ub - 1

\* C20: for an astral table of n >= 1 records sorted strictly ascending by
\* (plane, lowOffset) and every cv in 0x20000..0x10FFFF with the query key
\* (cv >> 16, cv & 0xFFFF), the binary search with
\* mid = max(lowerBound + 1, lowerBound + (upperBound - lowerBound) / 2)
\* ends with lowerBound = upperBound = the index of the record with the
\* greatest key not above the query key, or 0 when every key is above it;
\* a conventional binary search selects the same index, and it is the
\* record whose upper offset the call went on to read.
C20_AstralSearch ==
  (/\ last.op = "category" /\ last.err = 0
   /\ last.cv \in 131072..1114111
   /\ StrictlyAscending) =>
    LET plane == last.cv \div 65536
        offs == last.cv % 65536
        s == AstralSearch(plane, offs, 0, AstralCount - 1, {}, 0)
    IN  /\ s.lbound = s.ubound
        /\ s.lbound = GreatestNotAbove(plane, offs)
        /\ s.lbound = ConventionalSearch(plane, offs)
        /\ \A rd \in last.reads :
             rd[2] % 4 = 2 => rd[2] = (4 * s.lbound) + 2
        /\ << "gcat_astral", (4 * s.lbound) + 2 >> \in last.reads

\* The search ran on a table of five or more records, took two or more
\* steps and selected a record that is neither the first nor the last.
C20_Witness ==
  /\ last.op = "category" /\ last.err = 0
  /\ last.cv \in 131072..1114111
  /\ StrictlyAscending /\ AstralCount >= 5
  /\ LET s == AstralSearch(last.cv \div 65536, last.cv % 65536, 0,
                           AstralCount - 1, {}, 0)
     IN  /\ s.iters >= 2
         /\ s.lbound \in 1..(AstralCount - 2)
         /\ << "gcat_astral", (4 * s.lbound) + 2 >> \in last.reads

\* The key of every record was above the query key, and the search ended on
\* the first record.
C20_WitnessNoneBelow ==
  /\ last.op = "category" /\ last.err = 0
  /\ StrictlyAscending /\ AstralCount >= 2
  /\ GreatestNotAbove(last.cv \div 65536, last.cv % 65536) = 0
  /\ ~KeyNotAbove(1, last.cv \div 65536, last.cv % 65536)

(***************************************************************************)
(* The while loop of the astral search, one iteration at a time, on tables *)
(* that are sorted or not.  While a search is under way, last holds its    *)
(* codepoint, its bounds, the midpoint of the last iteration and the       *)
(* number of iterations made.                                              *)
(***************************************************************************)

\* The orders in which the records of a table are laid out.
LoopShapes == {"ascending", "descending", "equal"}

\* An astral table of n records: those of SearchTable(n) in their order, in
\* the reverse order, or the first of them n times.
LoopTable(n, shape) ==
  Explicit([i \in 1..(4 * n) |->
     LET rec == (i - 1) \div 4
         src == CASE shape = "ascending" -> rec
                  [] shape = "descending" -> (n - 1) - rec
                  [] OTHER -> 0
     IN  SearchTable(n)[(4 * src) + ((i - 1) % 4) + 1]])

\* The astral tables that the loop is run on, and one that ends in the
\* middle of a record.
LoopTables ==
  { LoopTable(n, shape) : n \in 1..MaxRecords, shape \in LoopShapes }
    \cup { Take(SearchTable(2), 6) }

\* unikit_init(NULL) linked with a data module whose astral table is t and
\* whose other tables are those of ShortData.
LoopLoad(t) ==
  /\ alive
  /\ ~AlreadyInitialized
  /\ TablesOf(NULL_PTR,
       [k \in 1..8 |->
          IF k = 8 THEN decodeUint16Array(Encode(t), TRUE)
          ELSE decodeUint16Array(StringOf(ShortData, KeyList[k]), TRUE)])

\* unikit_category(cv) for an astral cv up to the while loop, as the first
\* call after unikit_init: the call ends at once on a table that does not
\* hold whole records, and otherwise sets the bounds.
LoopBegin(cv) ==
  /\ alive
  /\ m_init = 1
  /\ last.op = "init"
  /\ IF m_gcat_astral_len < 1 \/ m_gcat_astral_len % 4 # 0
       THEN Category(cv)
       ELSE /\ last' = [op |-> "search", cv |-> cv, lbound |-> 0,
                        ubound |-> (m_gcat_astral_len \div 4) - 1,
                        mid |-> -1, iters |-> 0]
            /\ UNCHANGED << module, alive, inits >>

\* One iteration of the while loop.
LoopStep ==
  /\ last.op = "search"
  /\ last.lbound < last.ubound
  /\ last.iters < AstralCount
  /\ LET st == AstralStep(Shr(last.cv, 16), Low(last.cv, 16),
                          last.lbound, last.ubound)
     IN  last' = [last EXCEPT !.lbound = st.lbound, !.ubound = st.ubound,
                              !.mid = st.mid, !.iters = last.iters + 1]
  /\ UNCHANGED << module, alive, inits >>

\* The loop is left and the call returns.
LoopEnd ==
  /\ last.op = "search"
  /\ ~(last.lbound < last.ubound)
  /\ Category(last.cv)

LoopNext ==
  \/ \E t \in LoopTables : LoopLoad(t)
  \/ \E cv \in SearchProbes : LoopBegin(cv)
  \/ LoopStep
  \/ LoopEnd

\* The call runs on: an iteration that can be made is made.
LoopSpec == Init /\ [][LoopNext]_vars /\ WF_vars(LoopStep)

\* C21: for every astral table whose length is a non-zero multiple of 4,
\* sorted or not, and every cv in 0x20000..0x10FFFF the loop of the astral
\* search terminates: each iteration picks mid with lbound < mid <= ubound,
\* keeps 0 <= lbound <= ubound <= n-1 and strictly decreases ubound - lbound
\* (also on an interval of two records), so that the loop ends with
\* lbound = ubound after n-1 iterations at most, on the record that the
\* call then reads.
C21_SearchTerminates ==
  /\ [][(last.op = "search" /\ last'.op = "search") =>
          /\ last.lbound < last'.mid /\ last'.mid <= last.ubound
          /\ last'.ubound - last'.lbound < last.ubound - last.lbound
          /\ last'.iters = last.iters + 1]_vars
  /\ [](last.op = "search" =>
          /\ 0 <= last.lbound /\ last.lbound <= last.ubound
          /\ last.ubound <= AstralCount - 1
          /\ last.iters <= AstralCount - 1)
  /\ (last.op = "search") ~> (last.op = "search" /\ last.lbound = last.ubound)
  /\ [][(last.op = "search" /\ last'.op = "category") =>
          /\ last.lbound = last.ubound
          /\ last'.err = 0
          /\ << "gcat_astral", (4 * last.lbound) + 2 >> \in last'.reads
          /\ last.iters = AstralSearch(Shr(last.cv, 16), Low(last.cv, 16), 0,
                                       AstralCount - 1, {}, 0).iters]_vars

\* A search on an unsorted table of five or more records has come to an
\* interval of two records after two iterations or more.
C21_Witness ==
  /\ last.op = "search"
  /\ ~StrictlyAscending /\ AstralCount >= 5
  /\ last.iters >= 2
  /\ last.ubound = last.lbound + 1

\* A search on an unsorted table has ended after three iterations.
C21_WitnessEnded ==
  /\ last.op = "search"
  /\ ~StrictlyAscending
  /\ last.iters >= 3
  /\ last.ubound = last.lbound

(***************************************************************************)
(* unikit_init and the shape of the decoded tables.                        *)
(***************************************************************************)

\* The errors that report a table of the wrong shape.
ShapeErrors == {599, 612, 661}

\* The defects of shape: a core table that does not hold 256 words, an
\* astral table that is empty or does not hold whole records, a bitmap that
\* ends before the cell of cv.
CoreDefect == m_gcat_core_len # 256
AstralDefect == m_gcat_astral_len < 1 \/ m_gcat_astral_len % 4 # 0
BitmapShort(cv) == (cv - 256) \div 8 >= m_gcat_bitmap_len

\* C22: unikit_init does not validate the shape of any decoded table: it
\* completes for any eight strings that decode without error and fails only
\* with the error of a decode; a core table of a length other than 256, an
\* astral table that is empty or whose length is no multiple of 4 and a
\* bitmap shorter than the queried cell raise their fatal errors only in a
\* later category call whose cv falls in the band that uses the table, and
\* category calls for cv in bands whose tables are sound return their
\* results.
C22_InitDoesNotValidate ==
  /\ [][(last'.op = "init" /\ m_init = 0) =>
          \E d \in 1..Len(DataSets), nalloc \in 0..8 :
            LET r == DecodeAll(d, nalloc) IN
            IF \A k \in 1..8 : r[k].err = 0
              THEN /\ last'.err = 0 /\ alive' /\ inits' = inits + 1
                   /\ m_gcat_core_len' = r[4].len
                   /\ m_gcat_bitmap_len' = r[7].len
                   /\ m_gcat_astral_len' = r[8].len
              ELSE /\ last'.err = r[FirstError(r)].err
                   /\ last'.err \notin ShapeErrors
                   /\ ~alive']_vars
  /\ []((last.op = "category" /\ last.pre = 1) =>
          /\ (last.err = 599) <=> (last.cv \in 0..255 /\ CoreDefect)
          /\ (last.err = 612) <=>
               (last.cv \in 256..131071 /\ BitmapShort(last.cv))
          /\ (last.err = 661) <=>
               (last.cv \in 131072..1114111 /\ AstralDefect)
          /\ BandTablesSound(last.cv) =>
               (last.err = 0 /\ last.ret # NoValue))

\* unikit_init completed on a core table of the wrong length, and a
\* category call in the astral band returned a category.
C22_Witness ==
  /\ last.op = "category" /\ last.pre = 1 /\ inits = 1
  /\ CoreDefect
  /\ last.cv \in 131072..1114111
  /\ last.err = 0 /\ last.ret \in GcatSet

\* unikit_init completed on an astral table that holds no whole records,
\* and a category call in the astral band raised the error of that defect.
C22_WitnessRaised ==
  /\ last.op = "category" /\ last.pre = 1 /\ inits = 1
  /\ AstralDefect
  /\ last.err = 661

====
